---------------------------- MODULE Spec2Model ----------------------------
(***************************************************************************)
(* A state-machine model of the battlemon Gen-III singles battle engine:   *)
(* the four state domains (field, side, slot, mon), the EffectResult       *)
(* scratch, the staged effect pipeline with its ops and stage transitions, *)
(* the held-item hooks, and the turn orchestrator BattleEngine.            *)
(***************************************************************************)
EXTENDS Integers, Sequences, FiniteSets, TLC

VARIABLES rentals, mons, slots, sides, field, ctx, result, pipe, turn

vars == <<rentals, mons, slots, sides, field, ctx, result, pipe, turn>>

(***************************************************************************)
(* Bounds of the model.                                                    *)
(***************************************************************************)
\* execute_turn is called at most MaxTurns times in one battle.
MaxTurns == 2

\* Random(max) is drawn from the DrawSpread lowest and DrawSpread highest
\* values of its range 0 .. max-1.
DrawSpread == 1

(***************************************************************************)
(* dsl/stages.hpp: the pipeline stages and their ranks.                    *)
(***************************************************************************)
Genesis == 0

AccuracyResolved == 1

DamageCalculated == 2

DamageApplied == 3

EffectApplied == 4

FaintChecked == 5

Terminus == 6

(***************************************************************************)
(* dsl/domain.hpp: domains and the named masks, as sets of domain bits.    *)
(***************************************************************************)
Domain == {"Field", "Side", "Slot", "Mon", "Transient"}

Pure == {"Slot", "Mon"}

Screen == {"Side"}

Status == {"Mon"}

StatChange == {"Slot"}

Scratch == {"Transient"}

\* meta.hpp: (Required & ~Allowed) == 0.
ValidAccess(Allowed, Required) == (Required \ Allowed) = {}

\* stages.hpp / meta.hpp: the pipeline has reached or passed the stage.
StageReached(Current, Required) == Required <= Current

(***************************************************************************)
(* util/random.cpp: Random(max) returns PCG32_Next() % max, a value of     *)
(* 0 .. max-1.  The model draws it from both ends of that range.           *)
(***************************************************************************)
Random(max) == {r \in 0..(max - 1) : r < DrawSpread \/ r >= max - DrawSpread}

(***************************************************************************)
(* types/enums/type.hpp and calc/type_effectiveness.hpp.                   *)
(***************************************************************************)
Type == <<"NONE", "NORMAL", "FIGHTING", "FLYING", "POISON", "GROUND", "ROCK",
          "BUG", "GHOST", "STEEL", "FIRE", "WATER", "GRASS", "ELECTRIC",
          "PSYCHIC", "ICE", "DRAGON", "DARK">>

TypeIndex(t) == CHOOSE i \in 1..Len(Type) : Type[i] = t

TYPE_CHART ==
  << <<10,10,10,10,10,10,10,10,10,10,10,10,10,10,10,10,10,10>>,
     <<10,10,10,10,10,10, 5,10, 0, 5,10,10,10,10,10,10,10,10>>,
     <<10,20,10, 5, 5,10,20, 5, 0,20,10,10,10,10, 5,20,10,20>>,
     <<10,10,20,10,10,10, 5,20,10, 5,10,10,20, 5,10,10,10,10>>,
     <<10,10,10,10, 5, 5, 5,10, 5, 0,10,10,20,10,10,10,10,10>>,
     <<10,10,10, 0,20,10,20, 5,10,20,20,10, 5,20,10,10,10,10>>,
     <<10,10, 5,20,10, 5,10,20,10, 5,20,10,10,10,10,20,10,10>>,
     <<10,10, 5, 5, 5,10,10,10, 5, 5, 5,10,20,10,20,10,10,20>>,
     <<10, 0,10,10,10,10,10,10,20, 5,10,10,10,10,20,10,10, 5>>,
     <<10,10,10,10,10,10,20,10,10, 5, 5, 5,10, 5,10,20,10,10>>,
     <<10,10,10,10,10,10, 5,20,10,20, 5, 5,20,10,10,20, 5,10>>,
     <<10,10,10,10,10,20,20,10,10,10,20, 5, 5,10,10,10, 5,10>>,
     <<10,10,10, 5, 5,20,20, 5,10, 5, 5,20, 5,10,10,10, 5,10>>,
     <<10,10,10,20,10, 0,10,10,10,10,10,20, 5, 5,10,10, 5,10>>,
     <<10,10,20,10,20,10,10,10,10, 5,10,10,10,10, 5,10,10, 0>>,
     <<10,10,10,20,10,20,10,10,10, 5, 5, 5,20,10,10, 5,20,10>>,
     <<10,10,10,10,10,10,10,10,10, 5,10,10,10,10,10,10,20,10>>,
     <<10,10, 5,10,10,10,10,10,20, 5,10,10,10,10,20,10,10, 5>> >>

DUAL_NEUTRAL == 100

get_type_effectiveness(attack_type, defend_type1, defend_type2) ==
  TYPE_CHART[TypeIndex(attack_type)][TypeIndex(defend_type1)]
    * TYPE_CHART[TypeIndex(attack_type)][TypeIndex(defend_type2)]

is_immune(eff) == eff = 0

\* ops/damage.hpp: the Gen-III physical/special split by move type.
is_physical_type(t) ==
  t \in {"NORMAL", "FIGHTING", "FLYING", "POISON", "GROUND", "ROCK", "BUG",
         "GHOST", "STEEL"}

(***************************************************************************)
(* Data tables.  data/move.hpp, data/species.hpp and the rental sets are   *)
(* not part of the sources at hand; the rows below follow the layout of    *)
(* types/models/move.hpp, species.hpp and rental.hpp.                      *)
(***************************************************************************)
MoveRow(id, type, power, accuracy, pp, priority, effect) ==
  [id |-> id, type |-> type, power |-> power, accuracy |-> accuracy,
   pp |-> pp, priority |-> priority, effect |-> effect]

g_MOVE_TABLE ==
  [TACKLE        |-> MoveRow(33,  "NORMAL", 35,  95,  35, 0, "HIT"),
   QUICK_ATTACK  |-> MoveRow(98,  "NORMAL", 40,  100, 30, 1, "QUICK_ATTACK"),
   ABSORB        |-> MoveRow(71,  "GRASS",  20,  100, 20, 0, "ABSORB"),
   TAKE_DOWN     |-> MoveRow(36,  "NORMAL", 90,  85,  20, 0, "RECOIL"),
   DRAGON_RAGE   |-> MoveRow(82,  "DRAGON", 1,   100, 10, 0, "DRAGON_RAGE"),
   POISON_STING  |-> MoveRow(40,  "POISON", 15,  100, 35, 0, "POISON_HIT"),
   PURSUIT       |-> MoveRow(228, "DARK",   40,  100, 20, 0, "PURSUIT"),
   SWORDS_DANCE  |-> MoveRow(14,  "NORMAL", 0,   0,   30, 0, "ATK_UP_2"),
   GROWL         |-> MoveRow(45,  "NORMAL", 0,   100, 40, 0, "ATK_DOWN"),
   HAZE          |-> MoveRow(114, "ICE",    0,   0,   30, 0, "HAZE"),
   POISON_POWDER |-> MoveRow(77,  "POISON", 0,   75,  35, 0, "POISON"),
   RECOVER       |-> MoveRow(105, "NORMAL", 0,   0,   20, 0, "RESTORE_HP"),
   LIGHT_SCREEN  |-> MoveRow(113, "PSYCHIC", 0,  0,   30, 0, "LIGHT_SCREEN"),
   REFLECT       |-> MoveRow(115, "PSYCHIC", 0,  0,   20, 0, "REFLECT"),
   SANDSTORM     |-> MoveRow(201, "ROCK",   0,   0,   10, 0, "SANDSTORM"),
   SUNNY_DAY     |-> MoveRow(241, "FIRE",   0,   0,   5,  0, "SUNNY_DAY"),
   RAIN_DANCE    |-> MoveRow(240, "WATER",  0,   0,   5,  0, "RAIN_DANCE"),
   HAIL          |-> MoveRow(258, "ICE",    0,   0,   10, 0, "HAIL"),
   MAGIC_COAT    |-> MoveRow(277, "PSYCHIC", 0,  0,   15, 4, "MAGIC_COAT"),
   SKY_ATTACK    |-> MoveRow(143, "FLYING", 140, 90,  5,  0, "SKY_ATTACK"),
   BATON_PASS    |-> MoveRow(226, "NORMAL", 0,   0,   40, 0, "BATON_PASS"),
   PERISH_SONG   |-> MoveRow(195, "NORMAL", 0,   0,   5,  0, "PERISH_SONG")]

\* engine/battle.cpp: lookup_move indexes the move table by move id.
lookup_move(move_id) == g_MOVE_TABLE[move_id]

\* types/models/move.hpp Move::Flags::magic_coat_affected of the row of a
\* move: the status moves aimed at the opponent.
magic_coat_affected(move_id) == move_id \in {"GROWL", "POISON_POWDER"}

\* The stat block calc_stats produces for a species at the battle level.
StatRow(hp, attack, defense, sp_attack, sp_defense, speed, type1, type2) ==
  [hp |-> hp, attack |-> attack, defense |-> defense,
   sp_attack |-> sp_attack, sp_defense |-> sp_defense, speed |-> speed,
   type1 |-> type1, type2 |-> type2]

g_SPECIES_TABLE ==
  [SPECIES_A |-> StatRow(40, 100, 100, 100, 100, 100, "NORMAL", "NONE"),
   SPECIES_B |-> StatRow(60, 100, 100, 100, 100, 80,  "GRASS", "POISON"),
   SPECIES_C |-> StatRow(50, 100, 100, 100, 100, 100, "DARK", "FLYING"),
   SPECIES_D |-> StatRow(40, 100, 100, 100, 100, 120, "NORMAL", "NONE")]

\* types/models/rental.hpp: species, moves[4], held_item.
RentalRow(species, m1, m2, m3, m4, held_item) ==
  [species |-> species, moves |-> <<m1, m2, m3, m4>>, held_item |-> held_item]

g_RENTAL_SETS ==
  [R1 |-> RentalRow("SPECIES_A", "TAKE_DOWN", "TACKLE", "SWORDS_DANCE",
                    "RECOVER", "QUICK_CLAW"),
   R2 |-> RentalRow("SPECIES_D", "QUICK_ATTACK", "GROWL", "HAZE",
                    "BATON_PASS", "LEFTOVERS"),
   R3 |-> RentalRow("SPECIES_B", "ABSORB", "POISON_STING", "POISON_POWDER",
                    "DRAGON_RAGE", "SHELL_BELL"),
   R4 |-> RentalRow("SPECIES_C", "PURSUIT", "SKY_ATTACK", "MAGIC_COAT",
                    "PERISH_SONG", "KINGS_ROCK"),
   R5 |-> RentalRow("SPECIES_B", "LIGHT_SCREEN", "REFLECT", "SANDSTORM",
                    "SUNNY_DAY", "FOCUS_BAND"),
   R6 |-> RentalRow("SPECIES_B", "RAIN_DANCE", "HAIL", "TACKLE",
                    "SANDSTORM", "NONE")]

\* The pairs of rentals a battle is set up from.
Matchups == {<<"R1", "R2">>, <<"R3", "R4">>, <<"R5", "R6">>}

NUM_MOVES == 4

(***************************************************************************)
(* logic/calc/stat_stages.hpp: stat stage ratios, stored 0..12 with 6      *)
(* neutral.                                                                *)
(***************************************************************************)
DEFAULT_STAT_STAGE == 6

MAX_STAT_STAGE == 12

STAT_STAGE_RATIOS ==
  << <<10, 40>>, <<10, 35>>, <<10, 30>>, <<10, 25>>, <<10, 20>>, <<10, 15>>,
     <<10, 10>>, <<15, 10>>, <<20, 10>>, <<25, 10>>, <<30, 10>>, <<35, 10>>,
     <<40, 10>> >>

\* static_cast<StatStage>(int8_t): StatStage is uint8_t.
StatStageCast(stage) == stage % 256

\* Bytes an out-of-bounds read of STAT_STAGE_RATIOS may return.
OutOfBoundsNumerators == {0, 1, 255}

OutOfBoundsDenominators == {1, 255}

\* apply_stat_stage reading the neutral row whatever the stage.
apply_stat_stage_neutral(base_stat, stage) == {base_stat % 65536}

\* apply_stat_stage(base_stat, stage): the set of values the call may
\* return.  An index above MAX_STAT_STAGE reads past the table (the
\* assertion is compiled out under NDEBUG).
apply_stat_stage(base_stat, stage) ==
  IF stage <= MAX_STAT_STAGE
    THEN {((base_stat * STAT_STAGE_RATIOS[stage + 1][1])
             \div STAT_STAGE_RATIOS[stage + 1][2]) % 65536}
    ELSE {((base_stat * n) \div d) % 65536 :
             n \in OutOfBoundsNumerators, d \in OutOfBoundsDenominators}

(***************************************************************************)
(* logic/calc/accuracy.hpp                                                 *)
(***************************************************************************)
ACC_STAGE_NUMERATORS == <<3, 3, 3, 3, 3, 3, 3, 4, 5, 6, 7, 8, 9>>

ACC_STAGE_DENOMINATORS == <<9, 8, 7, 6, 5, 4, 3, 3, 3, 3, 3, 3, 3>>

acc_stage_to_index(stage) ==
  (IF stage < -6 THEN -6 ELSE IF stage > 6 THEN 6 ELSE stage) + 6

calc_effective_accuracy(base_accuracy, acc_stage, eva_stage) ==
  IF base_accuracy = 0 THEN 100
  ELSE
    LET ai == acc_stage_to_index(acc_stage) + 1
        ei == acc_stage_to_index(eva_stage) + 1
        a1 == IF acc_stage # 0
                THEN (base_accuracy * ACC_STAGE_NUMERATORS[ai])
                       \div ACC_STAGE_DENOMINATORS[ai]
                ELSE base_accuracy
        a2 == IF eva_stage # 0
                THEN (a1 * ACC_STAGE_DENOMINATORS[ei])
                       \div ACC_STAGE_NUMERATORS[ei]
                ELSE a1
    IN IF a2 > 100 THEN 100 ELSE a2

\* roll is the value Random(100) returned.
roll_accuracy(effective_accuracy, roll) ==
  IF effective_accuracy >= 100 THEN TRUE ELSE roll < effective_accuracy

check_accuracy(base_accuracy, acc_stage, eva_stage, roll) ==
  IF base_accuracy = 0 THEN TRUE
  ELSE roll_accuracy(
         calc_effective_accuracy(base_accuracy, acc_stage, eva_stage), roll)

(***************************************************************************)
(* logic/calc/critical.hpp and logic/calc/damage.hpp                       *)
(***************************************************************************)
MAX_CRIT_STAGE == 4

CRIT_CHANCE == <<16, 8, 4, 3, 2>>

CRIT_MULTIPLIER == 2

\* roll is the value Random(CRIT_CHANCE[crit_stage]) returned.
roll_critical(crit_stage, roll) == roll = 0

resolve_critical_hit(params, roll) ==
  IF params.is_critical THEN TRUE
  ELSE IF params.crit_stage <= MAX_CRIT_STAGE
    THEN roll_critical(params.crit_stage, roll)
    ELSE FALSE

\* The attack/defense pairs the call may return (more than one only when a
\* stat stage indexes past STAT_STAGE_RATIOS).
apply_crit_aware_stat_stages(params, is_critical) ==
  LET atks == IF is_critical /\ ~(params.attack_stage > DEFAULT_STAT_STAGE)
                THEN {params.attack}
                ELSE apply_stat_stage(params.attack, params.attack_stage)
      defs == IF is_critical /\ ~(params.defense_stage < DEFAULT_STAT_STAGE)
                THEN {params.defense}
                ELSE apply_stat_stage(params.defense, params.defense_stage)
  IN {[attack |-> a, defense |-> IF d = 0 THEN 1 ELSE d] :
        a \in atks, d \in defs}

calc_base_damage(level, power, attack, defense) ==
  ((((2 * level) \div 5 + 2) * power * attack) \div defense) \div 50 + 2

apply_critical_multiplier(damage, is_critical) ==
  IF is_critical THEN damage * CRIT_MULTIPLIER ELSE damage

has_stab(move_type, attacker_type1, attacker_type2) ==
  move_type = attacker_type1 \/ move_type = attacker_type2

apply_stab(damage, move_type, attacker_type1, attacker_type2) ==
  IF has_stab(move_type, attacker_type1, attacker_type2)
    THEN (damage * 3) \div 2 ELSE damage

apply_type_effectiveness(damage, eff) == (damage * eff) \div DUAL_NEUTRAL

\* roll is the value Random(16) returned.
apply_random_variance(damage, skip_random, roll) ==
  IF skip_random THEN damage ELSE (damage * (100 - roll)) \div 100

enforce_minimum_damage(damage, eff) ==
  IF damage = 0 /\ ~is_immune(eff) THEN 1 ELSE damage

clamp_damage(damage) == IF damage > 65535 THEN 65535 ELSE damage

\* calculate_damage with the two draws and the stat pair made explicit.
calculate_damage(params, crit_roll, var_roll, stats) ==
  LET critical == resolve_critical_hit(params, crit_roll)
      d1 == calc_base_damage(params.level, params.power, stats.attack,
                             stats.defense)
      d2 == apply_critical_multiplier(d1, critical)
      d3 == apply_stab(d2, params.move_type, params.attacker_type1,
                       params.attacker_type2)
      eff == get_type_effectiveness(params.move_type, params.defender_type1,
                                    params.defender_type2)
      d4 == apply_type_effectiveness(d3, eff)
      d5 == apply_random_variance(d4, params.skip_random, var_roll)
      d6 == enforce_minimum_damage(d5, eff)
  IN [damage |-> clamp_damage(d6), effectiveness |-> eff,
      critical |-> critical]

(***************************************************************************)
(* logic/calc/speed.hpp                                                    *)
(***************************************************************************)
\* The speeds the call may return.
calc_effective_speed(base_speed, speed_stage, status) ==
  {IF status = "PARALYSIS" THEN s \div 4 ELSE s :
     s \in apply_stat_stage(base_speed, speed_stage)}

BATTLER1_FIRST == 0

BATTLER2_FIRST == 1

SPEED_TIE == 2

determine_turn_order(priority1, priority2, speed1, speed2) ==
  IF priority1 # priority2
    THEN (IF priority1 > priority2 THEN BATTLER1_FIRST ELSE BATTLER2_FIRST)
  ELSE IF speed1 > speed2 THEN BATTLER1_FIRST
  ELSE IF speed2 > speed1 THEN BATTLER2_FIRST
  ELSE SPEED_TIE

(***************************************************************************)
(* logic/state: MonState, SlotState, SideState, FieldState.                *)
(***************************************************************************)
is_fainted(m) == m.current_hp = 0

\* has_status answering no for every mon: the status is always written.
has_status_never(m) == FALSE

has_status(m) == m.status # "NONE"

\* MonState::apply_damage: hp saturates at 0.
apply_damage_wrapping(m, damage) ==
  [m EXCEPT !.current_hp = (@ - damage) % 65536]

apply_damage(m, damage) ==
  IF damage >= m.current_hp
    THEN [m EXCEPT !.current_hp = 0]
    ELSE [m EXCEPT !.current_hp = @ - damage]

\* MonState::heal: hp saturates at max_hp.
heal(m, amount) ==
  LET missing == m.max_hp - m.current_hp
      healed == IF amount < missing THEN amount ELSE missing
  IN [m EXCEPT !.current_hp = @ + healed]

MonStateInit(hp) ==
  [current_hp |-> hp, max_hp |-> hp, status |-> "NONE",
   pp |-> [k \in 1..NUM_MOVES |-> 0]]

\* volatile_flags::BATON_PASS_MASK
BATON_PASS_MASK ==
  {"CONFUSED", "FOCUS_ENERGY", "SUBSTITUTE", "LEECH_SEED", "CURSED",
   "TRAPPED", "INGRAINED", "PERISH_SONG", "LOCK_ON"}

StageFields ==
  {"atk_stage", "def_stage", "spd_stage", "sp_atk_stage", "sp_def_stage",
   "accuracy_stage", "evasion_stage"}

\* SlotState{}: the default member initialisers.  held_item and
\* item_consumed are the item fields dsl/item/dispatch.hpp reads.
SlotState ==
  [atk_stage |-> 6, def_stage |-> 6, spd_stage |-> 6, sp_atk_stage |-> 6,
   sp_def_stage |-> 6, accuracy_stage |-> 6, evasion_stage |-> 6,
   volatiles |-> {}, perish_count |-> 0, substitute_hp |-> 0,
   last_move_used |-> 0, charging_move |-> 0, moved_this_turn |-> FALSE,
   bounce_move |-> FALSE, held_item |-> "NONE", item_consumed |-> FALSE,
   leech_seed_target |-> 255]

clear_on_switch(s) == SlotState

\* clear_for_baton_pass without the restore of leech_seed_target.
clear_for_baton_pass_unseeded(s) ==
  [SlotState EXCEPT
     !.volatiles = s.volatiles \cap BATON_PASS_MASK,
     !.atk_stage = s.atk_stage, !.def_stage = s.def_stage,
     !.spd_stage = s.spd_stage, !.sp_atk_stage = s.sp_atk_stage,
     !.sp_def_stage = s.sp_def_stage,
     !.accuracy_stage = s.accuracy_stage,
     !.evasion_stage = s.evasion_stage,
     !.substitute_hp = s.substitute_hp,
     !.perish_count = s.perish_count]

clear_for_baton_pass(s) ==
  [SlotState EXCEPT
     !.volatiles = s.volatiles \cap BATON_PASS_MASK,
     !.atk_stage = s.atk_stage, !.def_stage = s.def_stage,
     !.spd_stage = s.spd_stage, !.sp_atk_stage = s.sp_atk_stage,
     !.sp_def_stage = s.sp_def_stage,
     !.accuracy_stage = s.accuracy_stage,
     !.evasion_stage = s.evasion_stage,
     !.substitute_hp = s.substitute_hp,
     !.perish_count = s.perish_count,
     !.leech_seed_target = s.leech_seed_target]

clear_turn_flags(s) ==
  [s EXCEPT !.volatiles = @ \ {"PROTECTED", "ENDURED", "FLINCHED"},
            !.moved_this_turn = FALSE,
            !.bounce_move = FALSE]

SideState ==
  [reflect_turns |-> 0, light_screen_turns |-> 0, safeguard_turns |-> 0,
   mist_turns |-> 0]

FieldState == [weather |-> "NONE", weather_turns |-> 0]

(***************************************************************************)
(* logic/state/context.hpp                                                 *)
(***************************************************************************)
EffectResult ==
  [missed |-> FALSE, damage |-> 0, effectiveness |-> 256, critical |-> FALSE,
   status_applied |-> FALSE, failed |-> FALSE, switch_out |-> FALSE,
   baton_pass |-> FALSE, pursuit_intercept |-> FALSE,
   pursuit_user_slot |-> 255]

DamageOverride == [power |-> 0, attack |-> 0, defense |-> 0]

MAX_BATTLE_SLOTS == 2

SlotIds == 0..(MAX_BATTLE_SLOTS - 1)

\* engine/battle.cpp set_attacker: the defender is the other slot.
Attacker == ctx.attacker_slot_id

Defender == 1 - ctx.attacker_slot_id

\* defender_has_substitute() never seeing the substitute.
defender_substitute_unseen == FALSE

defender_has_substitute == slots[Defender].substitute_hp > 0

effective_power(move) ==
  IF ctx.override.power > 0 THEN ctx.override.power ELSE move.power

(***************************************************************************)
(* logic/setup/rental.hpp and BattleEngine::init                           *)
(***************************************************************************)
BattleLevel == 50

\* ActiveMon of a slot: level, five battle stats, both types.
ActiveMon(i) ==
  LET st == g_SPECIES_TABLE[g_RENTAL_SETS[rentals[i]].species]
  IN [level |-> BattleLevel, attack |-> st.attack, defense |-> st.defense,
      sp_attack |-> st.sp_attack, sp_defense |-> st.sp_defense,
      speed |-> st.speed, type1 |-> st.type1, type2 |-> st.type2]

setup_rental(r) ==
  [mon |-> MonStateInit(g_SPECIES_TABLE[g_RENTAL_SETS[r].species].hp),
   slot |-> SlotState]

NoAction == [type |-> "RUN", index |-> 0]

\* engine/battle.hpp: BattleResult.
P1_WINS == 0

P2_WINS == 1

ONGOING == 255

\* BattleEngine::result()
battle_result ==
  IF is_fainted(mons[0]) THEN P2_WINS
  ELSE IF is_fainted(mons[1]) THEN P1_WINS
  ELSE ONGOING

\* The engine between two calls of execute_turn; result_at_call is what
\* result() returned when the running execute_turn was called.
TurnInit ==
  [pc |-> "idle", n |-> 0, first_slot |-> 0, result_at_call |-> ONGOING,
   actions |-> [i \in SlotIds |-> NoAction],
   quick_claw |-> [i \in SlotIds |-> FALSE],
   speeds |-> [i \in SlotIds |-> 0], drew |-> FALSE]

PipeIdle == [effect |-> "NONE", ops |-> <<>>, stage |-> Genesis]

Init ==
  /\ rentals \in {[i \in SlotIds |-> m[i + 1]] : m \in Matchups}
  /\ mons = [i \in SlotIds |-> setup_rental(rentals[i]).mon]
  /\ slots = [i \in SlotIds |-> setup_rental(rentals[i]).slot]
  /\ sides = [i \in SlotIds |-> SideState]
  /\ field = FieldState
  /\ ctx = [attacker_slot_id |-> 0, move |-> "NONE",
            override |-> DamageOverride]
  /\ result = EffectResult
  /\ pipe = PipeIdle
  /\ turn = TurnInit

(***************************************************************************)
(* logic/ops: the CommandMeta<domains, input stage, output stage> each     *)
(* command declares, and the template arguments of the aliases used.       *)
(***************************************************************************)
CommandMeta(domains, input_stage, output_stage) ==
  [domains |-> domains, input_stage |-> input_stage,
   output_stage |-> output_stage]

OpMeta(cmd) ==
  CASE cmd = "CheckAccuracy" ->
         CommandMeta({"Slot"}, Genesis, AccuracyResolved)
    [] cmd = "CalculateDamage" ->
         CommandMeta({"Slot", "Mon", "Transient"}, AccuracyResolved,
                     DamageCalculated)
    [] cmd = "ApplyDamage" ->
         CommandMeta({"Slot", "Mon"}, DamageCalculated, DamageApplied)
    [] cmd \in {"DrainHalfHP", "RecoilQuarter", "TryApplyPoison"} ->
         CommandMeta({"Mon"}, DamageApplied, EffectApplied)
    [] cmd = "SetFixedDamage40" ->
         CommandMeta({"Slot", "Mon"}, AccuracyResolved, DamageCalculated)
    [] cmd \in {"HealHalf", "ApplyPoisonMove"} ->
         CommandMeta({"Mon"}, Genesis, EffectApplied)
    [] cmd = "CheckFaint" ->
         CommandMeta({"Mon"}, DamageApplied, FaintChecked)
    [] cmd = "CheckFaintAfterEffect" ->
         CommandMeta({"Mon"}, EffectApplied, FaintChecked)
    [] cmd \in {"TryApplyFlinch", "TryLowerDefenderAtk1"} ->
         CommandMeta({"Slot"}, DamageApplied, EffectApplied)
    [] cmd = "BeginCharge" -> CommandMeta({"Slot"}, Genesis, FaintChecked)
    [] cmd = "ClearCharge" ->
         CommandMeta({"Slot"}, Genesis, AccuracyResolved)
    [] cmd \in {"SetMagicCoat", "ApplyPerishSong", "RaiseUserAtk2",
                "LowerDefenderAtk1", "ResetAllStats", "MarkPursuitReady"} ->
         CommandMeta({"Slot"}, Genesis, EffectApplied)
    [] cmd = "RequestBatonPass" -> CommandMeta({"Slot"}, Genesis, Terminus)
    [] cmd \in {"SetSun", "SetRain", "SetSandstorm", "SetHail"} ->
         CommandMeta({"Field"}, Genesis, EffectApplied)
    [] cmd \in {"SetReflect", "SetLightScreen"} ->
         CommandMeta({"Side"}, Genesis, EffectApplied)

\* DrainHP<Percent>, Recoil<Percent>, HealUser<Percent>
Percent(cmd) ==
  CASE cmd = "DrainHalfHP" -> 50
    [] cmd = "RecoilQuarter" -> 25
    [] cmd = "HealHalf" -> 50

\* SetFixedDamage taking the power of the move for its amount.
AmountFromMovePower(cmd) == lookup_move(ctx.move).power

\* SetFixedDamage<Amount>
Amount(cmd) == CASE cmd = "SetFixedDamage40" -> 40

\* ModifyUserStat<S, Stages>, ModifyDefenderStat<S, Stages>,
\* TryModifyDefenderStat<S, Stages>
StatArgs(cmd) ==
  CASE cmd = "RaiseUserAtk2" -> [S |-> "atk_stage", Stages |-> 2]
    [] cmd = "LowerDefenderAtk1" -> [S |-> "atk_stage", Stages |-> -1]
    [] cmd = "TryLowerDefenderAtk1" -> [S |-> "atk_stage", Stages |-> -1]

\* TryApplyStatus<S>, ApplyStatusMove<S>
StatusArg(cmd) ==
  CASE cmd \in {"TryApplyPoison", "ApplyPoisonMove"} -> "POISON"

\* SetWeather<W>
WeatherArg(cmd) ==
  CASE cmd = "SetSun" -> "SUN"
    [] cmd = "SetRain" -> "RAIN"
    [] cmd = "SetSandstorm" -> "SANDSTORM"
    [] cmd = "SetHail" -> "HAIL"

(***************************************************************************)
(* logic/routines: the effects.  RUN(cmd) and RUN_WITH(cmd, arg) entries   *)
(* of an effect body, in order.                                            *)
(***************************************************************************)
RUN(cmd) == [cmd |-> cmd, arg |-> 0]

RUN_WITH(cmd, arg) == [cmd |-> cmd, arg |-> arg]

\* dsl/branching.hpp when::NotCharging
NotCharging(actor) == slots[actor].charging_move = 0

SkyAttackHit ==
  <<RUN("ClearCharge"), RUN("CheckAccuracy"), RUN("CalculateDamage"),
    RUN("ApplyDamage"), RUN("TryApplyFlinch"), RUN("CheckFaintAfterEffect")>>

\* Match<FaintChecked, Branch<NotCharging, Do<BeginCharge>>,
\*       Otherwise<SkyAttackHit>>
SkyAttackAction(actor) ==
  IF NotCharging(actor) THEN <<RUN("BeginCharge")>> ELSE SkyAttackHit

\* Every effect declared with the StatChange mask.
EffectDomainsStatChange(routine) == StatChange

\* The domain mask an EFFECT declares.
EffectDomains(routine) ==
  CASE routine \in {"Hit", "Absorb", "TakeDown", "DragonRage", "Pursuit",
                    "SkyAttack"} -> Pure
    [] routine = "PoisonHit" -> Pure \cup Scratch
    [] routine = "Recover" -> {"Mon"}
    [] routine = "Poison" -> Status
    [] routine \in {"AttackUp2", "AttackDown1", "Haze", "MagicCoat",
                    "BatonPass", "PerishSong"} -> StatChange
    [] routine \in {"LightScreen", "Reflect"} -> Screen
    [] routine \in {"Sandstorm", "SunnyDay", "RainDance", "HailEffect"} ->
         {"Field"}
    [] routine = "NONE" -> {}

\* The commands an effect runs for the given acting slot.
EffectOps(routine, actor) ==
  CASE routine = "Hit" ->
         <<RUN("CheckAccuracy"), RUN("CalculateDamage"), RUN("ApplyDamage"),
           RUN("CheckFaint")>>
    [] routine = "Absorb" ->
         <<RUN("CheckAccuracy"), RUN("CalculateDamage"), RUN("ApplyDamage"),
           RUN("DrainHalfHP"), RUN("CheckFaintAfterEffect")>>
    [] routine = "TakeDown" ->
         <<RUN("CheckAccuracy"), RUN("CalculateDamage"), RUN("ApplyDamage"),
           RUN("RecoilQuarter"), RUN("CheckFaintAfterEffect")>>
    [] routine = "DragonRage" ->
         <<RUN("CheckAccuracy"), RUN("SetFixedDamage40"), RUN("ApplyDamage"),
           RUN("CheckFaint")>>
    [] routine = "PoisonHit" ->
         <<RUN("CheckAccuracy"), RUN("CalculateDamage"), RUN("ApplyDamage"),
           RUN_WITH("TryApplyPoison", 30), RUN("CheckFaintAfterEffect")>>
    [] routine = "Pursuit" ->
         <<RUN("MarkPursuitReady"), RUN("CheckAccuracy"),
           RUN("CalculateDamage"), RUN("ApplyDamage"), RUN("CheckFaint")>>
    [] routine = "SkyAttack" -> SkyAttackAction(actor)
    [] routine = "Recover" -> <<RUN("HealHalf")>>
    [] routine = "Poison" -> <<RUN("ApplyPoisonMove")>>
    [] routine = "AttackUp2" -> <<RUN("RaiseUserAtk2")>>
    [] routine = "AttackDown1" -> <<RUN("LowerDefenderAtk1")>>
    [] routine = "Haze" -> <<RUN("ResetAllStats")>>
    [] routine = "MagicCoat" -> <<RUN("SetMagicCoat")>>
    [] routine = "BatonPass" -> <<RUN("RequestBatonPass")>>
    [] routine = "PerishSong" -> <<RUN("ApplyPerishSong")>>
    [] routine = "LightScreen" -> <<RUN("SetLightScreen")>>
    [] routine = "Reflect" -> <<RUN("SetReflect")>>
    [] routine = "Sandstorm" -> <<RUN("SetSandstorm")>>
    [] routine = "SunnyDay" -> <<RUN("SetSun")>>
    [] routine = "RainDance" -> <<RUN("SetRain")>>
    [] routine = "HailEffect" -> <<RUN("SetHail")>>
    [] routine = "NONE" -> <<>>

\* dispatch_move_effect with the stub cases left out of the switch: a tag
\* without a routine of its own runs nothing.
dispatch_stubs_unbound(effect) ==
  CASE effect = "HIT" -> "Hit"
    [] effect = "ABSORB" -> "Absorb"
    [] effect = "RECOIL" -> "TakeDown"
    [] effect = "DRAGON_RAGE" -> "DragonRage"
    [] effect = "POISON_HIT" -> "PoisonHit"
    [] effect = "PURSUIT" -> "Pursuit"
    [] effect = "ATK_UP_2" -> "AttackUp2"
    [] effect = "ATK_DOWN" -> "AttackDown1"
    [] effect = "HAZE" -> "Haze"
    [] effect = "POISON" -> "Poison"
    [] effect = "RESTORE_HP" -> "Recover"
    [] effect = "LIGHT_SCREEN" -> "LightScreen"
    [] effect = "REFLECT" -> "Reflect"
    [] effect = "SANDSTORM" -> "Sandstorm"
    [] effect = "SUNNY_DAY" -> "SunnyDay"
    [] effect = "RAIN_DANCE" -> "RainDance"
    [] effect = "HAIL" -> "HailEffect"
    [] effect = "MAGIC_COAT" -> "MagicCoat"
    [] effect = "SKY_ATTACK" -> "SkyAttack"
    [] effect = "BATON_PASS" -> "BatonPass"
    [] effect = "PERISH_SONG" -> "PerishSong"
    [] OTHER -> "NONE"

\* dispatch.hpp: the routine an Effect value is bound to; effects without an
\* implementation of their own are stubs bound to Hit.
dispatch_move_effect(effect) ==
  CASE effect = "HIT" -> "Hit"
    [] effect = "ABSORB" -> "Absorb"
    [] effect = "RECOIL" -> "TakeDown"
    [] effect = "DRAGON_RAGE" -> "DragonRage"
    [] effect = "POISON_HIT" -> "PoisonHit"
    [] effect = "PURSUIT" -> "Pursuit"
    [] effect = "QUICK_ATTACK" -> "Hit"
    [] effect = "ATK_UP_2" -> "AttackUp2"
    [] effect = "ATK_DOWN" -> "AttackDown1"
    [] effect = "HAZE" -> "Haze"
    [] effect = "POISON" -> "Poison"
    [] effect = "RESTORE_HP" -> "Recover"
    [] effect = "LIGHT_SCREEN" -> "LightScreen"
    [] effect = "REFLECT" -> "Reflect"
    [] effect = "SANDSTORM" -> "Sandstorm"
    [] effect = "SUNNY_DAY" -> "SunnyDay"
    [] effect = "RAIN_DANCE" -> "RainDance"
    [] effect = "HAIL" -> "HailEffect"
    [] effect = "MAGIC_COAT" -> "MagicCoat"
    [] effect = "SKY_ATTACK" -> "SkyAttack"
    [] effect = "BATON_PASS" -> "BatonPass"
    [] effect = "PERISH_SONG" -> "PerishSong"
    [] effect = "NONE" -> "NONE"

(***************************************************************************)
(* dsl/item: handlers and the fire_* dispatchers.  A roll parameter is the *)
(* value the handler's Random(max) call returned.                          *)
(***************************************************************************)
\* The guards every fire_* applies to the item of the slot.
ItemActive(s) == s.held_item # "NONE" /\ ~s.item_consumed

\* OnTurnStart (Quick Claw): the priority_boost flag; roll is Random(5).
fire_turn_start(s, roll) ==
  ItemActive(s) /\ s.held_item = "QUICK_CLAW" /\ roll = 0

\* OnPreDamageCalc (Scope Lens, Choice Band) on the attacker's item.
fire_pre_damage_calc(s, params) ==
  IF ~ItemActive(s) THEN params
  ELSE IF s.held_item = "SCOPE_LENS"
    THEN (IF params.crit_stage < 4
            THEN [params EXCEPT !.crit_stage = @ + 1] ELSE params)
  ELSE IF s.held_item = "CHOICE_BAND"
    THEN [params EXCEPT !.attack = ((@ * 3) \div 2) % 65536]
  ELSE params

\* OnPreDamageApply (Focus Band) on the defender's item: the damage to
\* commit.  roll is Random(100).
fire_pre_damage_apply(s, damage, defender_hp, roll) ==
  IF ItemActive(s) /\ s.held_item = "FOCUS_BAND" /\ damage >= defender_hp
     /\ roll < 12
    THEN (defender_hp - 1) % 65536
    ELSE damage

\* OnPostDamageApply (King's Rock, Shell Bell) on the attacker's item.
\* roll is Random(10).
fire_post_damage_apply(s, damage_dealt, target_fainted, roll) ==
  LET none == [attacker_heal |-> 0, attacker_recoil |-> 0,
               cause_flinch |-> FALSE]
  IN IF ~ItemActive(s) THEN none
     ELSE IF s.held_item = "KINGS_ROCK"
       THEN [none EXCEPT !.cause_flinch =
               damage_dealt > 0 /\ ~target_fainted /\ roll = 0]
     ELSE IF s.held_item = "SHELL_BELL" /\ damage_dealt > 0
       THEN [none EXCEPT !.attacker_heal =
               IF damage_dealt \div 8 = 0 THEN 1 ELSE damage_dealt \div 8]
     ELSE none

\* OnTurnEnd (Leftovers): the heal_amount the handler reports.
fire_turn_end(s, m) ==
  IF ItemActive(s) /\ s.held_item = "LEFTOVERS"
    THEN (IF m.max_hp \div 16 = 0 THEN 1 ELSE m.max_hp \div 16)
    ELSE 0

\* dsl/turn_pipeline.hpp
fire_turn_end_for_slot(s, m) ==
  IF is_fainted(m) THEN m
  ELSE IF fire_turn_end(s, m) > 0
    THEN heal(m, IF m.max_hp \div 16 = 0 THEN 1 ELSE m.max_hp \div 16)
    ELSE m

(***************************************************************************)
(* engine/battle.cpp: the turn orchestrator.                               *)
(***************************************************************************)
\* The actions a player may hand to execute_turn.
BattleAction ==
  {[type |-> "MOVE", index |-> k] : k \in 0..(NUM_MOVES - 1)}
    \cup {[type |-> "SWITCH", index |-> 0]}

MoveOf(slot, index) == g_RENTAL_SETS[rentals[slot]].moves[index + 1]

get_action_priority(action, slot) ==
  IF action.type = "MOVE"
    THEN lookup_move(MoveOf(slot, action.index)).priority
    ELSE 0

\* The speeds calc_effective_speed(active, slot, mon) may return.
SlotSpeeds(i) ==
  calc_effective_speed(ActiveMon(i).speed, StatStageCast(slots[i].spd_stage),
                       mons[i].status)

\* determine_order reversed by speed: the slower battler first.
determine_order_slowest(p1_priority, p2_priority, p1_quick_claw, p2_quick_claw, p1_speed, p2_speed, coin) ==
  [first_slot |-> IF p1_speed < p2_speed THEN 0 ELSE 1, drew |-> FALSE]

\* determine_order: the slot that acts first, and whether the coin was
\* drawn.  coin is the value Random(2) returns if it is called.
determine_order(p1_priority, p2_priority, p1_quick_claw, p2_quick_claw, p1_speed, p2_speed, coin) ==
  LET order ==
        IF p1_priority # p2_priority
          THEN determine_turn_order(p1_priority, p2_priority,
                                    p1_speed, p2_speed)
        ELSE IF p1_quick_claw /\ ~p2_quick_claw THEN BATTLER1_FIRST
        ELSE IF p2_quick_claw /\ ~p1_quick_claw THEN BATTLER2_FIRST
        ELSE determine_turn_order(p1_priority, p2_priority,
                                  p1_speed, p2_speed)
      final ==
        IF order = SPEED_TIE
          THEN (IF coin = 0 THEN BATTLER1_FIRST ELSE BATTLER2_FIRST)
          ELSE order
  IN [first_slot |-> IF final = BATTLER1_FIRST THEN 0 ELSE 1,
      drew |-> order = SPEED_TIE]

\* execute_turn up to the return of determine_order, where r1 and r2 are
\* the values Random(5) returns to the Quick Claw handler of p1 and of p2 if
\* that handler runs.
ExecuteTurnDrawing(r1, r2) ==
  /\ turn.pc \in {"idle", "fixture"}
  /\ turn.n < MaxTurns
  /\ \E p1_action \in BattleAction, p2_action \in BattleAction,
        coin \in Random(2) :
       LET cleared == [i \in SlotIds |-> clear_turn_flags(slots[i])]
           p1_quick_claw == fire_turn_start(cleared[0], r1)
           p2_quick_claw == fire_turn_start(cleared[1], r2)
       IN \E p1_speed \in SlotSpeeds(0), p2_speed \in SlotSpeeds(1) :
            LET order == determine_order(
                           get_action_priority(p1_action, 0),
                           get_action_priority(p2_action, 1),
                           p1_quick_claw, p2_quick_claw,
                           p1_speed, p2_speed, coin)
            IN /\ slots' = cleared
               /\ turn' = [turn EXCEPT
                    !.pc = "first",
                    !.result_at_call = battle_result,
                    !.first_slot = order.first_slot,
                    !.actions = [i \in SlotIds |->
                                   IF i = 0 THEN p1_action ELSE p2_action],
                    !.quick_claw = [i \in SlotIds |->
                                      IF i = 0 THEN p1_quick_claw
                                               ELSE p2_quick_claw],
                    !.speeds = [i \in SlotIds |->
                                  IF i = 0 THEN p1_speed ELSE p2_speed],
                    !.drew = order.drew]
  /\ UNCHANGED <<rentals, mons, sides, field, ctx, result, pipe>>

ExecuteTurn == \E r1 \in Random(5), r2 \in Random(5) : ExecuteTurnDrawing(r1, r2)

FirstSlot == turn.first_slot

SecondSlot == 1 - turn.first_slot

\* execute_action, up to the call of dispatch_move_effect: set_attacker,
\* the move, a fresh EffectResult and DamageOverride, and the pipeline the
\* dispatched effect begins.  Any action but MOVE does nothing.
execute_action(actor_slot, action, run_pc, done_pc) ==
  IF action.type = "MOVE"
    THEN LET move_id == MoveOf(actor_slot, action.index)
             routine == dispatch_move_effect(lookup_move(move_id).effect)
         IN /\ ctx' = [attacker_slot_id |-> actor_slot, move |-> move_id,
                       override |-> DamageOverride]
            /\ result' = EffectResult
            /\ pipe' = [effect |-> routine,
                        ops |-> EffectOps(routine, actor_slot),
                        stage |-> Genesis]
            /\ turn' = [turn EXCEPT !.pc = run_pc]
            /\ UNCHANGED <<rentals, mons, slots, sides, field>>
    ELSE /\ turn' = [turn EXCEPT !.pc = done_pc]
         /\ UNCHANGED <<rentals, mons, slots, sides, field, ctx, result,
                        pipe>>

\* execute_turn: execute_action(first_slot, *first_action).
FirstAction ==
  /\ turn.pc = "first"
  /\ execute_action(FirstSlot, turn.actions[FirstSlot], "first_run",
                    "second")

\* execute_turn: the second action is skipped when its mon has fainted.
SecondActionSkipped == is_fainted(mons[SecondSlot])

SecondAction ==
  /\ turn.pc = "second"
  /\ IF SecondActionSkipped
       THEN /\ turn' = [turn EXCEPT !.pc = "end"]
            /\ UNCHANGED <<rentals, mons, slots, sides, field, ctx, result,
                           pipe>>
       ELSE execute_action(SecondSlot, turn.actions[SecondSlot],
                           "second_run", "end")

\* execute_move after dispatch_move_effect returns.
FinishMove ==
  /\ turn.pc \in {"first_run", "second_run"}
  /\ pipe.ops = <<>>
  /\ slots' = [slots EXCEPT
       ![Attacker].moved_this_turn = TRUE,
       ![Attacker].last_move_used = lookup_move(ctx.move).id % 256]
  /\ pipe' = PipeIdle
  /\ turn' = [turn EXCEPT
       !.pc = IF turn.pc = "first_run" THEN "second" ELSE "end"]
  /\ UNCHANGED <<rentals, mons, sides, field, ctx, result>>

\* execute_turn: the end-of-turn item events of both slots, then return.
TurnEnd ==
  /\ turn.pc = "end"
  /\ mons' = [i \in SlotIds |-> fire_turn_end_for_slot(slots[i], mons[i])]
  /\ turn' = [TurnInit EXCEPT !.n = turn.n + 1]
  /\ UNCHANGED <<rentals, slots, sides, field, ctx, result, pipe>>

(***************************************************************************)
(* dsl/pipeline.hpp: Pipeline<Stage, Allowed>::run<Cmd>() fires the stage  *)
(* transition from the current stage to the command's output stage, runs   *)
(* the command and continues at the command's output stage.  The two       *)
(* requirements of run<Cmd>, ValidAccess and StageReached, are constraints *)
(* on the effect bodies; they are stated as properties, not as guards.     *)
(***************************************************************************)
Running(cmds) ==
  /\ turn.pc \in {"first_run", "second_run"}
  /\ pipe.ops # <<>>
  /\ Head(pipe.ops).cmd \in cmds

Cmd == Head(pipe.ops).cmd

\* Pipeline<Cmd::output_stage, Allowed>{ctx}
Advance ==
  pipe' = [pipe EXCEPT !.ops = Tail(@),
                       !.stage = OpMeta(Cmd).output_stage]

\* StageTransition<DamageApplied, EffectApplied> fires the post-damage item
\* events (Shell Bell, King's Rock); every other transition taken without a
\* payload fires nothing.  The Random(10) of King's Rock is drawn only when
\* its handler runs.
TransitionDraws(from, to) ==
  IF /\ from = DamageApplied /\ to = EffectApplied
     /\ ~(result.damage = 0 \/ result.missed)
     /\ ItemActive(slots[Attacker])
     /\ slots[Attacker].held_item = "KINGS_ROCK"
     /\ ~is_fainted(mons[Defender])
    THEN Random(10) ELSE {0}

\* The mons and slots the transition leaves behind.
StageTransition(from, to, roll) ==
  IF /\ from = DamageApplied /\ to = EffectApplied
     /\ ~(result.damage = 0 \/ result.missed)
    THEN LET target_fainted == is_fainted(mons[Defender])
             ev == fire_post_damage_apply(slots[Attacker], result.damage,
                                          target_fainted, roll)
             healed == IF ev.attacker_heal > 0
                         THEN heal(mons[Attacker], ev.attacker_heal)
                         ELSE mons[Attacker]
             hurt == IF ev.attacker_recoil > 0
                       THEN apply_damage(healed, ev.attacker_recoil)
                       ELSE healed
         IN [mons |-> [mons EXCEPT ![Attacker] = hurt],
             slots |-> IF ev.cause_flinch /\ ~target_fainted
                         THEN [slots EXCEPT ![Defender].volatiles =
                                 @ \cup {"FLINCHED"}]
                         ELSE slots]
    ELSE [mons |-> mons, slots |-> slots]

\* The transition of the command at the head of the pipeline.
Draws == TransitionDraws(pipe.stage, OpMeta(Cmd).output_stage)

Pre(roll) == StageTransition(pipe.stage, OpMeta(Cmd).output_stage, roll)

(***************************************************************************)
(* logic/ops/accuracy.hpp                                                  *)
(***************************************************************************)
CheckAccuracy ==
  /\ Running({"CheckAccuracy"})
  /\ \E t \in Draws, roll \in Random(100) :
       LET hits == check_accuracy(lookup_move(ctx.move).accuracy,
                                  Pre(t).slots[Attacker].accuracy_stage,
                                  Pre(t).slots[Defender].evasion_stage, roll)
       IN /\ result' = [result EXCEPT !.missed = ~hits]
          /\ mons' = Pre(t).mons
          /\ slots' = Pre(t).slots
  /\ Advance
  /\ UNCHANGED <<rentals, sides, field, ctx, turn>>

(***************************************************************************)
(* logic/ops/damage.hpp                                                    *)
(***************************************************************************)
\* CalculateDamage::build_transient; after a miss the params keep the
\* member initialisers of DamageParams.
build_transient ==
  LET attacker == ActiveMon(Attacker)
      defender == ActiveMon(Defender)
      move == lookup_move(ctx.move)
      is_physical == is_physical_type(move.type)
      init == [attack |-> 100, defense |-> 100, power |-> 40,
               crit_stage |-> 0, level |-> 50, move_type |-> "NORMAL",
               attack_stage |-> DEFAULT_STAT_STAGE,
               defense_stage |-> DEFAULT_STAT_STAGE,
               attacker_type1 |-> "NONE", attacker_type2 |-> "NONE",
               defender_type1 |-> "NONE", defender_type2 |-> "NONE",
               is_critical |-> FALSE, skip_random |-> FALSE]
  IN IF result.missed THEN init
     ELSE [init EXCEPT
       !.attack = IF ctx.override.attack > 0 THEN ctx.override.attack
                  ELSE IF is_physical THEN attacker.attack
                  ELSE attacker.sp_attack,
       !.defense = IF ctx.override.defense > 0 THEN ctx.override.defense
                   ELSE IF is_physical THEN defender.defense
                   ELSE defender.sp_defense,
       !.power = effective_power(move),
       !.level = attacker.level,
       !.move_type = move.type,
       !.attack_stage =
          StatStageCast(IF is_physical THEN slots[Attacker].atk_stage
                                       ELSE slots[Attacker].sp_atk_stage),
       !.defense_stage =
          StatStageCast(IF is_physical THEN slots[Defender].def_stage
                                       ELSE slots[Defender].sp_def_stage),
       !.attacker_type1 = attacker.type1,
       !.attacker_type2 = attacker.type2,
       !.defender_type1 = defender.type1,
       !.defender_type2 = defender.type2]

\* StageTransition<AccuracyResolved, DamageCalculated> with a payload.
PayloadTransition(from, to, params) ==
  IF from = AccuracyResolved /\ to = DamageCalculated /\ ~result.missed
    THEN fire_pre_damage_calc(slots[Attacker], params)
    ELSE params

\* The Random(CRIT_CHANCE[stage]) and Random(16) draws of calculate_damage.
CritDraws(params) ==
  IF ~params.is_critical /\ params.crit_stage <= MAX_CRIT_STAGE
    THEN Random(CRIT_CHANCE[params.crit_stage + 1]) ELSE {1}

\* CalculateDamage computing the damage of a move that missed as well.
CalculateDamageOnMiss ==
  /\ Running({"CalculateDamage"})
  /\ LET params == [build_transient EXCEPT
                      !.power = effective_power(lookup_move(ctx.move))]
     IN \E crit_roll \in CritDraws(params), var_roll \in Random(16) :
          \E stats \in apply_crit_aware_stat_stages(
                         params, resolve_critical_hit(params, crit_roll)) :
            result' = [result EXCEPT
              !.damage = calculate_damage(params, crit_roll, var_roll,
                                          stats).damage]
  /\ Advance
  /\ UNCHANGED <<rentals, mons, slots, sides, field, ctx, turn>>

CalculateDamage ==
  /\ Running({"CalculateDamage"})
  /\ LET params == PayloadTransition(pipe.stage, OpMeta(Cmd).output_stage,
                                     build_transient)
     IN IF result.missed
          THEN result' = [result EXCEPT !.damage = 0]
          ELSE \E crit_roll \in CritDraws(params), var_roll \in Random(16) :
                 \E stats \in apply_crit_aware_stat_stages(
                                params, resolve_critical_hit(params,
                                                             crit_roll)) :
                   LET r == calculate_damage(params, crit_roll, var_roll,
                                             stats)
                   IN result' = [result EXCEPT
                        !.damage = r.damage,
                        !.effectiveness = r.effectiveness,
                        !.critical = r.critical]
  /\ Advance
  /\ UNCHANGED <<rentals, mons, slots, sides, field, ctx, turn>>

\* ApplyDamage leaving the SUBSTITUTE bit of a broken substitute set.
break_substitute_keep_bit(s) == [s EXCEPT !.substitute_hp = 0]

\* ApplyDamage, substitute branch with damage >= substitute_hp.
break_substitute(s) ==
  [s EXCEPT !.substitute_hp = 0, !.volatiles = @ \ {"SUBSTITUTE"}]

\* The Random(100) of Focus Band is drawn only when its handler gets there.
FocusBandDraws(s, damage, defender_hp) ==
  IF ItemActive(s) /\ s.held_item = "FOCUS_BAND" /\ damage >= defender_hp
    THEN Random(100) ELSE {0}

ApplyDamage ==
  /\ Running({"ApplyDamage"})
  /\ \E t \in Draws :
       LET m == Pre(t).mons
           s == Pre(t).slots
           damage == result.damage
       IN IF result.missed \/ damage = 0
            THEN mons' = m /\ slots' = s /\ UNCHANGED result
          ELSE IF defender_has_substitute
            THEN /\ mons' = m
                 /\ UNCHANGED result
                 /\ slots' =
                      IF damage >= s[Defender].substitute_hp
                        THEN [s EXCEPT ![Defender] = break_substitute(@)]
                        ELSE [s EXCEPT ![Defender].substitute_hp = @ - damage]
          ELSE \E roll \in FocusBandDraws(s[Defender], damage,
                                          m[Defender].current_hp) :
                 LET final == fire_pre_damage_apply(
                                s[Defender], damage, m[Defender].current_hp,
                                roll)
                 IN /\ result' = [result EXCEPT !.damage = final]
                    /\ mons' = [m EXCEPT ![Defender] = apply_damage(@, final)]
                    /\ slots' = s
  /\ Advance
  /\ UNCHANGED <<rentals, sides, field, ctx, turn>>

\* Percent of the damage dealt, at least 1.
PercentOfDamage(percent) ==
  LET part == (result.damage * percent) \div 100
  IN IF part = 0 /\ result.damage > 0 THEN 1 ELSE part

DrainHP ==
  /\ Running({"DrainHalfHP"})
  /\ \E t \in Draws :
       LET m == Pre(t).mons
           s == Pre(t).slots
       IN /\ slots' = s
          /\ mons' =
               IF result.missed \/ result.damage = 0 THEN m
               ELSE IF defender_has_substitute THEN m
               ELSE [m EXCEPT ![Attacker] =
                       heal(@, PercentOfDamage(Percent(Cmd)) % 65536)]
  /\ Advance
  /\ UNCHANGED <<rentals, sides, field, ctx, result, turn>>

Recoil ==
  /\ Running({"RecoilQuarter"})
  /\ \E t \in Draws :
       LET m == Pre(t).mons
           s == Pre(t).slots
       IN /\ slots' = s
          /\ mons' =
               IF result.missed \/ result.damage = 0 THEN m
               ELSE [m EXCEPT ![Attacker] =
                       apply_damage(@, PercentOfDamage(Percent(Cmd)) % 65536)]
  /\ Advance
  /\ UNCHANGED <<rentals, sides, field, ctx, result, turn>>

SetFixedDamage ==
  /\ Running({"SetFixedDamage40"})
  /\ \E t \in Draws :
       /\ mons' = Pre(t).mons
       /\ slots' = Pre(t).slots
  /\ result' = [result EXCEPT
       !.damage = IF result.missed THEN 0 ELSE Amount(Cmd)]
  /\ Advance
  /\ UNCHANGED <<rentals, sides, field, ctx, turn>>

HealUser ==
  /\ Running({"HealHalf"})
  /\ \E t \in Draws :
       LET m == Pre(t).mons
           part == (m[Attacker].max_hp * Percent(Cmd)) \div 100
           amount == IF part = 0 /\ Percent(Cmd) > 0 THEN 1 ELSE part
       IN /\ mons' = [m EXCEPT ![Attacker] = heal(@, amount % 65536)]
          /\ slots' = Pre(t).slots
  /\ Advance
  /\ UNCHANGED <<rentals, sides, field, ctx, result, turn>>

(***************************************************************************)
(* logic/ops/faint.hpp                                                     *)
(***************************************************************************)
\* CheckFaint and CheckFaintAfterEffect only look at the defender.
CheckFaint ==
  /\ Running({"CheckFaint", "CheckFaintAfterEffect"})
  /\ \E t \in Draws :
       /\ mons' = Pre(t).mons
       /\ slots' = Pre(t).slots
  /\ Advance
  /\ UNCHANGED <<rentals, sides, field, ctx, result, turn>>

(***************************************************************************)
(* logic/ops/stats.hpp                                                     *)
(***************************************************************************)
\* stage + Stages without the clamp.
unclamped_stage(stage, stages) == stage + stages

\* int8_t new_stage = stage + Stages, clamped to [-6, +6].
clamp_stage(stage, stages) ==
  LET new_stage == stage + stages
  IN IF new_stage < -6 THEN -6 ELSE IF new_stage > 6 THEN 6 ELSE new_stage

ModifyUserStat ==
  /\ Running({"RaiseUserAtk2"})
  /\ \E t \in Draws :
       LET s == Pre(t).slots
           S == StatArgs(Cmd).S
           new_stage == clamp_stage(s[Attacker][S], StatArgs(Cmd).Stages)
       IN /\ mons' = Pre(t).mons
          /\ IF new_stage = s[Attacker][S]
               THEN slots' = s /\ result' = [result EXCEPT !.failed = TRUE]
               ELSE /\ slots' = [s EXCEPT ![Attacker][S] = new_stage]
                    /\ UNCHANGED result
  /\ Advance
  /\ UNCHANGED <<rentals, sides, field, ctx, turn>>

ModifyDefenderStat ==
  /\ Running({"LowerDefenderAtk1"})
  /\ \E t \in Draws :
       LET s == Pre(t).slots
           S == StatArgs(Cmd).S
           new_stage == clamp_stage(s[Defender][S], StatArgs(Cmd).Stages)
       IN /\ mons' = Pre(t).mons
          /\ IF new_stage = s[Defender][S]
               THEN slots' = s /\ result' = [result EXCEPT !.failed = TRUE]
               ELSE /\ slots' = [s EXCEPT ![Defender][S] = new_stage]
                    /\ UNCHANGED result
  /\ Advance
  /\ UNCHANGED <<rentals, sides, field, ctx, turn>>

\* reset_slot writing the neutral index of the 0..12 stage table.
reset_slot_to_default(s) ==
  [s EXCEPT !.atk_stage = DEFAULT_STAT_STAGE, !.def_stage = DEFAULT_STAT_STAGE,
            !.spd_stage = DEFAULT_STAT_STAGE,
            !.sp_atk_stage = DEFAULT_STAT_STAGE,
            !.sp_def_stage = DEFAULT_STAT_STAGE,
            !.accuracy_stage = DEFAULT_STAT_STAGE,
            !.evasion_stage = DEFAULT_STAT_STAGE]

\* ResetAllStats::reset_slot
reset_slot(s) ==
  [s EXCEPT !.atk_stage = 0, !.def_stage = 0, !.spd_stage = 0,
            !.sp_atk_stage = 0, !.sp_def_stage = 0, !.accuracy_stage = 0,
            !.evasion_stage = 0]

ResetAllStats ==
  /\ Running({"ResetAllStats"})
  /\ \E t \in Draws :
       /\ mons' = Pre(t).mons
       /\ slots' = [i \in SlotIds |-> reset_slot(Pre(t).slots[i])]
  /\ Advance
  /\ UNCHANGED <<rentals, sides, field, ctx, result, turn>>

(***************************************************************************)
(* logic/ops/status.hpp                                                    *)
(***************************************************************************)
\* TryApplyStatus<S>::execute(ctx, chance): no draw is made; any chance
\* above zero applies the status.
TryApplyStatus ==
  /\ Running({"TryApplyPoison"})
  /\ \E t \in Draws :
       LET m == Pre(t).mons
           chance == Head(pipe.ops).arg
       IN /\ slots' = Pre(t).slots
          /\ IF ~result.missed /\ ~has_status(m[Defender]) /\ chance > 0
               THEN /\ mons' = [m EXCEPT ![Defender].status = StatusArg(Cmd)]
                    /\ result' = [result EXCEPT !.status_applied = TRUE]
               ELSE mons' = m /\ UNCHANGED result
  /\ Advance
  /\ UNCHANGED <<rentals, sides, field, ctx, turn>>

ApplyStatusMove ==
  /\ Running({"ApplyPoisonMove"})
  /\ \E t \in Draws :
       LET m == Pre(t).mons
       IN /\ slots' = Pre(t).slots
          /\ IF has_status(m[Defender])
               THEN mons' = m /\ result' = [result EXCEPT !.failed = TRUE]
               ELSE /\ mons' = [m EXCEPT ![Defender].status = StatusArg(Cmd)]
                    /\ result' = [result EXCEPT !.status_applied = TRUE]
  /\ Advance
  /\ UNCHANGED <<rentals, sides, field, ctx, turn>>

TryApplyFlinch ==
  /\ Running({"TryApplyFlinch"})
  /\ \E t \in Draws :
       LET s == Pre(t).slots
       IN /\ mons' = Pre(t).mons
          /\ slots' =
               IF result.missed \/ s[Defender].moved_this_turn THEN s
               ELSE [s EXCEPT ![Defender].volatiles = @ \cup {"FLINCHED"}]
  /\ Advance
  /\ UNCHANGED <<rentals, sides, field, ctx, result, turn>>

BeginCharge ==
  /\ Running({"BeginCharge"})
  /\ \E t \in Draws :
       /\ mons' = Pre(t).mons
       /\ slots' = [Pre(t).slots EXCEPT
            ![Attacker].charging_move = 1,
            ![Attacker].volatiles = @ \cup {"CHARGING"}]
  /\ Advance
  /\ UNCHANGED <<rentals, sides, field, ctx, result, turn>>

\* ClearCharge clearing the volatile bit only.
ClearChargeBitOnly ==
  /\ Running({"ClearCharge"})
  /\ \E t \in Draws :
       /\ mons' = Pre(t).mons
       /\ slots' = [Pre(t).slots EXCEPT
            ![Attacker].volatiles = @ \ {"CHARGING"}]
  /\ Advance
  /\ UNCHANGED <<rentals, sides, field, ctx, result, turn>>

ClearCharge ==
  /\ Running({"ClearCharge"})
  /\ \E t \in Draws :
       /\ mons' = Pre(t).mons
       /\ slots' = [Pre(t).slots EXCEPT
            ![Attacker].charging_move = 0,
            ![Attacker].volatiles = @ \ {"CHARGING"}]
  /\ Advance
  /\ UNCHANGED <<rentals, sides, field, ctx, result, turn>>

SetMagicCoat ==
  /\ Running({"SetMagicCoat"})
  /\ \E t \in Draws :
       /\ mons' = Pre(t).mons
       /\ slots' = [Pre(t).slots EXCEPT ![Attacker].bounce_move = TRUE]
  /\ Advance
  /\ UNCHANGED <<rentals, sides, field, ctx, result, turn>>

\* Every slot whose mon is alive, whether or not it carries the song.
PerishTargetsAlive(m, s) == {i \in SlotIds : ~is_fainted(m[i])}

\* The slots ApplyPerishSong affects: alive and not counting down yet.
PerishTargets(m, s) ==
  {i \in SlotIds : ~is_fainted(m[i]) /\ "PERISH_SONG" \notin s[i].volatiles}

ApplyPerishSong ==
  /\ Running({"ApplyPerishSong"})
  /\ \E t \in Draws :
       LET m == Pre(t).mons
           s == Pre(t).slots
       IN /\ mons' = m
          /\ slots' = [i \in SlotIds |->
               IF i \in PerishTargets(m, s)
                 THEN [s[i] EXCEPT !.volatiles = @ \cup {"PERISH_SONG"},
                                   !.perish_count = 3]
                 ELSE s[i]]
          /\ result' = [result EXCEPT
               !.failed = @ \/ PerishTargets(m, s) = {}]
  /\ Advance
  /\ UNCHANGED <<rentals, sides, field, ctx, turn>>

(***************************************************************************)
(* logic/ops/switch.hpp                                                    *)
(***************************************************************************)
RequestBatonPass ==
  /\ Running({"RequestBatonPass"})
  /\ \E t \in Draws :
       /\ mons' = Pre(t).mons
       /\ slots' = Pre(t).slots
  /\ result' = [result EXCEPT !.baton_pass = TRUE, !.switch_out = TRUE]
  /\ Advance
  /\ UNCHANGED <<rentals, sides, field, ctx, turn>>

MarkPursuitReady ==
  /\ Running({"MarkPursuitReady"})
  /\ \E t \in Draws :
       /\ mons' = Pre(t).mons
       /\ slots' = Pre(t).slots
  /\ result' = [result EXCEPT !.pursuit_intercept = TRUE,
                              !.pursuit_user_slot = ctx.attacker_slot_id]
  /\ Advance
  /\ UNCHANGED <<rentals, sides, field, ctx, turn>>

(***************************************************************************)
(* logic/ops/field.hpp                                                     *)
(***************************************************************************)
\* SetWeather<W> without the check for weather that is already active.
SetWeatherUnchecked ==
  /\ Running({"SetSun", "SetRain", "SetSandstorm", "SetHail"})
  /\ \E t \in Draws :
       /\ mons' = Pre(t).mons
       /\ slots' = Pre(t).slots
  /\ field' = [field EXCEPT !.weather = WeatherArg(Cmd), !.weather_turns = 5]
  /\ Advance
  /\ UNCHANGED <<rentals, sides, ctx, result, turn>>

SetWeather ==
  /\ Running({"SetSun", "SetRain", "SetSandstorm", "SetHail"})
  /\ \E t \in Draws :
       /\ mons' = Pre(t).mons
       /\ slots' = Pre(t).slots
  /\ IF field.weather = WeatherArg(Cmd)
       THEN result' = [result EXCEPT !.failed = TRUE] /\ UNCHANGED field
       ELSE /\ field' = [field EXCEPT !.weather = WeatherArg(Cmd),
                                      !.weather_turns = 5]
            /\ UNCHANGED result
  /\ Advance
  /\ UNCHANGED <<rentals, sides, ctx, turn>>

\* SetReflect without the check for a screen that is already up.
SetReflectUnchecked ==
  /\ Running({"SetReflect"})
  /\ \E t \in Draws :
       /\ mons' = Pre(t).mons
       /\ slots' = Pre(t).slots
  /\ sides' = [sides EXCEPT ![Attacker].reflect_turns = 5]
  /\ Advance
  /\ UNCHANGED <<rentals, field, ctx, result, turn>>

SetReflect ==
  /\ Running({"SetReflect"})
  /\ \E t \in Draws :
       /\ mons' = Pre(t).mons
       /\ slots' = Pre(t).slots
  /\ IF sides[Attacker].reflect_turns > 0
       THEN result' = [result EXCEPT !.failed = TRUE] /\ UNCHANGED sides
       ELSE /\ sides' = [sides EXCEPT ![Attacker].reflect_turns = 5]
            /\ UNCHANGED result
  /\ Advance
  /\ UNCHANGED <<rentals, field, ctx, turn>>

SetLightScreen ==
  /\ Running({"SetLightScreen"})
  /\ \E t \in Draws :
       /\ mons' = Pre(t).mons
       /\ slots' = Pre(t).slots
  /\ IF sides[Attacker].light_screen_turns > 0
       THEN result' = [result EXCEPT !.failed = TRUE] /\ UNCHANGED sides
       ELSE /\ sides' = [sides EXCEPT ![Attacker].light_screen_turns = 5]
            /\ UNCHANGED result
  /\ Advance
  /\ UNCHANGED <<rentals, field, ctx, turn>>

(***************************************************************************)
(* The engine: a battle set up by BattleEngine::init and driven by         *)
(* execute_turn.                                                           *)
(***************************************************************************)
RunCommand ==
  \/ CheckAccuracy \/ CalculateDamage \/ ApplyDamage \/ DrainHP \/ Recoil
  \/ SetFixedDamage \/ HealUser \/ CheckFaint
  \/ ModifyUserStat \/ ModifyDefenderStat \/ ResetAllStats
  \/ TryApplyStatus \/ ApplyStatusMove \/ TryApplyFlinch
  \/ BeginCharge \/ ClearCharge \/ SetMagicCoat \/ ApplyPerishSong
  \/ RequestBatonPass \/ MarkPursuitReady
  \/ SetWeather \/ SetReflect \/ SetLightScreen

Next ==
  \/ ExecuteTurn \/ FirstAction \/ SecondAction \/ FinishMove \/ TurnEnd
  \/ RunCommand

Spec == Init /\ [][Next]_vars

(***************************************************************************)
(* The same engine on battles whose slots hold the items of their rentals: *)
(* setup_rental leaves held_item out, so a caller that wants items in play *)
(* copies rental.held_item into the slot after init.                       *)
(***************************************************************************)
equip(r, s) == [s EXCEPT !.held_item = g_RENTAL_SETS[r].held_item]

InitEquipped ==
  /\ rentals \in {[i \in SlotIds |-> m[i + 1]] : m \in Matchups}
  /\ mons = [i \in SlotIds |-> setup_rental(rentals[i]).mon]
  /\ slots = [i \in SlotIds |-> equip(rentals[i], SlotState)]
  /\ sides = [i \in SlotIds |-> SideState]
  /\ field = FieldState
  /\ ctx = [attacker_slot_id |-> 0, move |-> "NONE",
            override |-> DamageOverride]
  /\ result = EffectResult
  /\ pipe = PipeIdle
  /\ turn = TurnInit

SpecEquipped == InitEquipped /\ [][Next]_vars

(***************************************************************************)
(* A test fixture: it prepares slots that hold items (their rental's, or   *)
(* a Shell Bell or a King's Rock each), stand behind a substitute (both,   *)
(* or p2's alone) or are charging, or mons that are paralysed or, p1's,    *)
(* fainted, or a poison user facing a POISON-typed mon, applies state      *)
(* functions and commands to them directly, and then drives the last       *)
(* execute_turn of a battle.                                               *)
(***************************************************************************)
\* A substitute of a quarter of the maximum HP, with its volatile bit.
with_substitute(s, m) ==
  [s EXCEPT !.substitute_hp = m.max_hp \div 4,
            !.volatiles = @ \cup {"SUBSTITUTE"}]

\* The state BeginCharge leaves the slot in.
with_charge(s) ==
  [s EXCEPT !.charging_move = 1, !.volatiles = @ \cup {"CHARGING"}]

\* A slot seeded by the slot target: the volatile bit and its target.
with_leech_seed(s, target) ==
  [s EXCEPT !.leech_seed_target = target,
            !.volatiles = @ \cup {"LEECH_SEED"}]

Fixtures ==
  {"items", "shell_bell", "kings_rock", "substitute", "substitute_p2",
   "charging", "paralysed", "fainted", "poison_typed"}

FixtureSlot(fixture, r, i) ==
  LET held == equip(r, SlotState)
  IN CASE fixture \in {"items", "paralysed", "fainted", "poison_typed"} -> held
       [] fixture = "shell_bell" -> [held EXCEPT !.held_item = "SHELL_BELL"]
       [] fixture = "kings_rock" -> [held EXCEPT !.held_item = "KINGS_ROCK"]
       [] fixture = "substitute" ->
            with_substitute(held, setup_rental(r).mon)
       [] fixture = "substitute_p2" ->
            IF i = 1 THEN with_substitute(held, setup_rental(r).mon) ELSE held
       [] fixture = "charging" -> with_leech_seed(with_charge(held), 1 - i)

FixtureInit ==
  /\ \E fixture \in Fixtures :
       /\ rentals \in {[i \in SlotIds |-> m[i + 1]] :
                         m \in IF fixture = "poison_typed"
                                 THEN {<<"R3", "R6">>} ELSE Matchups}
       /\ mons = [i \in SlotIds |->
                    IF fixture = "paralysed"
                      THEN [setup_rental(rentals[i]).mon
                              EXCEPT !.status = "PARALYSIS"]
                    ELSE IF fixture = "fainted" /\ i = 0
                      THEN [setup_rental(rentals[i]).mon
                              EXCEPT !.current_hp = 0]
                      ELSE setup_rental(rentals[i]).mon]
       /\ slots = [i \in SlotIds |-> FixtureSlot(fixture, rentals[i], i)]
  /\ sides = [i \in SlotIds |-> SideState]
  /\ field = FieldState
  /\ ctx = [attacker_slot_id |-> 0, move |-> "NONE",
            override |-> DamageOverride]
  /\ result = EffectResult
  /\ pipe = PipeIdle
  /\ turn = [TurnInit EXCEPT !.pc = "fixture", !.n = MaxTurns - 1]

\* TryModifyDefenderStat<S, Stages>::execute(ctx, chance), applied to the
\* context as the fixture set it up.
TryModifyDefenderStat ==
  /\ turn.pc = "fixture"
  /\ \E chance \in {0, 10} :
       LET S == StatArgs("TryLowerDefenderAtk1").S
           Stages == StatArgs("TryLowerDefenderAtk1").Stages
       IN slots' = IF result.missed \/ chance = 0 THEN slots
                   ELSE [slots EXCEPT ![Defender][S] = clamp_stage(@, Stages)]
  /\ UNCHANGED <<rentals, mons, sides, field, ctx, result, pipe, turn>>

\* SlotState::clear_for_baton_pass() on one of the slots.
ClearForBatonPass ==
  /\ turn.pc = "fixture"
  /\ \E i \in SlotIds :
       slots' = [slots EXCEPT ![i] = clear_for_baton_pass(@)]
  /\ UNCHANGED <<rentals, mons, sides, field, ctx, result, pipe, turn>>

\* SlotState::clear_on_switch() on one of the slots.
ClearOnSwitch ==
  /\ turn.pc = "fixture"
  /\ \E i \in SlotIds :
       slots' = [slots EXCEPT ![i] = clear_on_switch(@)]
  /\ UNCHANGED <<rentals, mons, sides, field, ctx, result, pipe, turn>>

FixtureNext ==
  \/ Next
  \/ TryModifyDefenderStat \/ ClearForBatonPass \/ ClearOnSwitch

SpecFixture == FixtureInit /\ [][FixtureNext]_vars

(***************************************************************************)
(* SetSafeguard and SetMist are commands no routine runs (the SAFEGUARD    *)
(* and MIST tags are stubs): a caller applies them to the context directly *)
(* once the turns of the battle are over.                                  *)
(***************************************************************************)
BattleOver == turn.pc = "idle" /\ turn.n = MaxTurns

\* SetSafeguard::execute(ctx)
SetSafeguard ==
  /\ BattleOver
  /\ IF sides[Attacker].safeguard_turns > 0
       THEN result' = [result EXCEPT !.failed = TRUE] /\ UNCHANGED sides
       ELSE /\ sides' = [sides EXCEPT ![Attacker].safeguard_turns = 5]
            /\ UNCHANGED result
  /\ UNCHANGED <<rentals, mons, slots, field, ctx, pipe, turn>>

\* SetMist::execute(ctx)
SetMist ==
  /\ BattleOver
  /\ IF sides[Attacker].mist_turns > 0
       THEN result' = [result EXCEPT !.failed = TRUE] /\ UNCHANGED sides
       ELSE /\ sides' = [sides EXCEPT ![Attacker].mist_turns = 5]
            /\ UNCHANGED result
  /\ UNCHANGED <<rentals, mons, slots, field, ctx, pipe, turn>>

ScreensNext == Next \/ SetSafeguard \/ SetMist

SpecScreens == Init /\ [][ScreensNext]_vars

(***************************************************************************)
(* A round trip of ModifyUserStat: on a fresh context whose user has stage *)
(* start in stat S, a caller runs ModifyUserStat<S, +k> and then           *)
(* ModifyUserStat<S, -k>.  The locals of the caller (S, k, start) are kept *)
(* in turn.                                                                *)
(***************************************************************************)
RoundTripInit ==
  /\ rentals \in {[i \in SlotIds |-> m[i + 1]] : m \in Matchups}
  /\ mons = [i \in SlotIds |-> setup_rental(rentals[i]).mon]
  /\ \E S \in StageFields, start \in -6..6, k \in {1, 2} :
       /\ slots = [i \in SlotIds |->
                     IF i = 0 THEN [SlotState EXCEPT ![S] = start]
                              ELSE SlotState]
       /\ turn = [pc |-> "round_trip", n |-> 0, S |-> S, k |-> k,
                  start |-> start]
  /\ sides = [i \in SlotIds |-> SideState]
  /\ field = FieldState
  /\ ctx = [attacker_slot_id |-> 0, move |-> "NONE",
            override |-> DamageOverride]
  /\ result = EffectResult
  /\ pipe = PipeIdle

\* ModifyUserStat<S, Stages>::execute(ctx)
ModifyUserStatExecute(S, Stages) ==
  LET new_stage == clamp_stage(slots[Attacker][S], Stages)
  IN IF new_stage = slots[Attacker][S]
       THEN slots' = slots /\ result' = [result EXCEPT !.failed = TRUE]
       ELSE /\ slots' = [slots EXCEPT ![Attacker][S] = new_stage]
            /\ UNCHANGED result

RaiseThenLower ==
  /\ turn.pc = "round_trip"
  /\ turn.n < 2
  /\ ModifyUserStatExecute(turn.S, IF turn.n = 0 THEN turn.k ELSE -turn.k)
  /\ turn' = [turn EXCEPT !.n = @ + 1]
  /\ UNCHANGED <<rentals, mons, sides, field, ctx, pipe>>

RoundTripNext == RaiseThenLower

SpecRoundTrip == RoundTripInit /\ [][RoundTripNext]_vars

(***************************************************************************)
(* ApplyPerishSong::execute applied to a prepared context: the user of     *)
(* Perish Song is about to run the command, each mon is alive or fainted,  *)
(* and each slot either is free of the song or carries it with a count.    *)
(***************************************************************************)
PerishSongInit ==
  /\ rentals = [i \in SlotIds |-> <<"R3", "R4">>[i + 1]]
  /\ \E down \in SUBSET SlotIds :
       mons = [i \in SlotIds |->
                 IF i \in down
                   THEN [setup_rental(rentals[i]).mon EXCEPT !.current_hp = 0]
                   ELSE setup_rental(rentals[i]).mon]
  /\ \E count \in [SlotIds -> 0..3] :
       slots = [i \in SlotIds |->
                  IF count[i] = 0
                    THEN SlotState
                    ELSE [SlotState EXCEPT !.perish_count = count[i],
                                           !.volatiles = {"PERISH_SONG"}]]
  /\ sides = [i \in SlotIds |-> SideState]
  /\ field = FieldState
  /\ ctx = [attacker_slot_id |-> 1, move |-> "PERISH_SONG",
            override |-> DamageOverride]
  /\ result = EffectResult
  /\ pipe = [effect |-> "PerishSong", ops |-> EffectOps("PerishSong", 1),
             stage |-> Genesis]
  /\ turn = [TurnInit EXCEPT !.pc = "first_run", !.first_slot = 1,
                             !.actions[1] = [type |-> "MOVE", index |-> 3]]

PerishSongNext == ApplyPerishSong

SpecPerishSong == PerishSongInit /\ [][PerishSongNext]_vars

(***************************************************************************)
(* calculate_damage called directly on DamageParams with skip_random set:  *)
(* the params are those of a damaging move of one of the rentals, and the  *)
(* call is made at the neutral attack stage, at the stage two above it, and*)
(* at the neutral stage with the attack stat doubled.                      *)
(***************************************************************************)
DamageInit ==
  /\ rentals \in {[i \in SlotIds |-> m[i + 1]] : m \in Matchups}
  /\ mons = [i \in SlotIds |-> setup_rental(rentals[i]).mon]
  /\ slots = [i \in SlotIds |-> setup_rental(rentals[i]).slot]
  /\ sides = [i \in SlotIds |-> SideState]
  /\ field = FieldState
  /\ \E a \in SlotIds, k \in 1..NUM_MOVES, atk \in {0, 1, 7, 150},
        def \in {0, 3, 255}, power \in {0, 1, 250} :
       /\ lookup_move(g_RENTAL_SETS[rentals[a]].moves[k]).power > 0
       /\ ctx = [attacker_slot_id |-> a,
                 move |-> g_RENTAL_SETS[rentals[a]].moves[k],
                 override |-> [power |-> power, attack |-> atk,
                               defense |-> def]]
  /\ result = EffectResult
  /\ pipe = PipeIdle
  /\ turn = [pc |-> "damage", n |-> 0, out |-> <<>>]

\* The n-th call: calculate_damage(params) and its DamageResult.
CalculateDamageAtStage ==
  /\ turn.pc = "damage"
  /\ turn.n < 3
  /\ LET base == [build_transient EXCEPT !.skip_random = TRUE]
         params == CASE turn.n = 0 -> base
                     [] turn.n = 1 ->
                          [base EXCEPT !.attack_stage = DEFAULT_STAT_STAGE + 2]
                     [] turn.n = 2 -> [base EXCEPT !.attack = 2 * @]
     IN \E crit_roll \in CritDraws(params), var_roll \in Random(16) :
          \E stats \in apply_crit_aware_stat_stages(
                         params, resolve_critical_hit(params, crit_roll)) :
            turn' = [turn EXCEPT
                       !.n = @ + 1,
                       !.out = Append(@, calculate_damage(params, crit_roll,
                                                          var_roll, stats))]
  /\ UNCHANGED <<rentals, mons, slots, sides, field, ctx, result, pipe>>

SpecDamage == DamageInit /\ [][CalculateDamageAtStage]_vars

(***************************************************************************)
(* CheckAccuracy called directly on a fresh context, with the calls of     *)
(* Random it makes written down: the move is any move of the attacker's    *)
(* rental, and the accuracy and evasion stages are set on the slots first. *)
(***************************************************************************)
AccuracyInit ==
  /\ rentals \in {[i \in SlotIds |-> m[i + 1]] : m \in Matchups}
  /\ mons = [i \in SlotIds |-> setup_rental(rentals[i]).mon]
  /\ \E acc \in {0, 5, 6, 7, 12}, eva \in {0, 5, 6, 7, 12} :
       slots = [i \in SlotIds |->
                  [setup_rental(rentals[i]).slot EXCEPT
                     !.accuracy_stage = acc, !.evasion_stage = eva]]
  /\ sides = [i \in SlotIds |-> SideState]
  /\ field = FieldState
  /\ \E a \in SlotIds, k \in 1..NUM_MOVES :
       ctx = [attacker_slot_id |-> a,
              move |-> g_RENTAL_SETS[rentals[a]].moves[k],
              override |-> DamageOverride]
  /\ result = EffectResult
  /\ pipe = PipeIdle
  /\ turn = [pc |-> "accuracy", n |-> 0, out |-> <<>>]

\* check_accuracy calling Random(100) once whatever the base accuracy.
check_accuracy_always_draws(base_accuracy) ==
  {<<roll>> : roll \in 0..(100 - 1)}

\* The values Random(100) may return to check_accuracy, one per call it
\* makes: none for a never-miss move, one inside roll_accuracy on either of
\* its branches.
check_accuracy_draws(base_accuracy) ==
  IF base_accuracy = 0 THEN {<<>>}
  ELSE {<<roll>> : roll \in 0..(100 - 1)}

\* CheckAccuracy::execute; out keeps what Random returned to it.
CheckAccuracyDrawing ==
  /\ turn.pc = "accuracy"
  /\ turn.n = 0
  /\ \E draws \in check_accuracy_draws(lookup_move(ctx.move).accuracy) :
       LET hits == check_accuracy(lookup_move(ctx.move).accuracy,
                                  slots[Attacker].accuracy_stage,
                                  slots[Defender].evasion_stage,
                                  IF draws = <<>> THEN 0 ELSE draws[1])
       IN /\ result' = [result EXCEPT !.missed = ~hits]
          /\ turn' = [turn EXCEPT !.n = 1, !.out = draws]
  /\ UNCHANGED <<rentals, mons, slots, sides, field, ctx, pipe>>

SpecAccuracy == AccuracyInit /\ [][CheckAccuracyDrawing]_vars

(***************************************************************************)
(* dsl/branching.hpp: Repeat<N, Action> and RepeatWhile<N, when::MoveHit,  *)
(* Action> executed on a fresh context, with Action = Do<CheckAccuracy>.   *)
(* I is the index of the unroll instantiation about to run, and out keeps  *)
(* the loop_iteration each run of the action found in the context.         *)
(***************************************************************************)
RepeatInit ==
  /\ rentals \in {[i \in SlotIds |-> m[i + 1]] : m \in Matchups}
  /\ mons = [i \in SlotIds |-> setup_rental(rentals[i]).mon]
  /\ slots = [i \in SlotIds |-> setup_rental(rentals[i]).slot]
  /\ sides = [i \in SlotIds |-> SideState]
  /\ field = FieldState
  /\ \E a \in SlotIds, k \in 1..NUM_MOVES :
       ctx = [attacker_slot_id |-> a,
              move |-> g_RENTAL_SETS[rentals[a]].moves[k],
              override |-> DamageOverride, loop_iteration |-> 0]
  /\ result = EffectResult
  /\ pipe = PipeIdle
  /\ \E loop \in {"Repeat", "RepeatWhile"}, n \in {1, 2, 3} :
       turn = [pc |-> "repeat", loop |-> loop, N |-> n, I |-> 0, out |-> <<>>]

\* Action::execute(pipe): CheckAccuracy, seeing loop_iteration seen.
RepeatedAction(seen) ==
  /\ \E roll \in Random(100) :
       result' = [result EXCEPT !.missed =
                    ~check_accuracy(lookup_move(ctx.move).accuracy,
                                    slots[Attacker].accuracy_stage,
                                    slots[Defender].evasion_stage, roll)]
  /\ turn' = [turn EXCEPT !.I = @ + 1, !.out = Append(@, seen)]

\* Repeat<N, Action>::unroll<Stage, Allowed, I> for I < N; at I == N it
\* only advances the pipeline to the output stage.
RepeatUnroll ==
  /\ turn.pc = "repeat"
  /\ turn.loop = "Repeat"
  /\ turn.I < turn.N
  /\ RepeatedAction(ctx.loop_iteration)
  /\ UNCHANGED <<rentals, mons, slots, sides, field, ctx, pipe>>

\* RepeatWhile<MaxIterations, Pred, Action>::unroll<Stage, Allowed, I> for
\* I < MaxIterations, with Pred = when::MoveHit.
RepeatWhileUnroll ==
  /\ turn.pc = "repeat"
  /\ turn.loop = "RepeatWhile"
  /\ turn.I < turn.N
  /\ ctx' = [ctx EXCEPT !.loop_iteration = turn.I % 256]
  /\ IF result.missed
       THEN turn' = [turn EXCEPT !.I = turn.N] /\ UNCHANGED result
       ELSE RepeatedAction(turn.I % 256)
  /\ UNCHANGED <<rentals, mons, slots, sides, field, pipe>>

SpecRepeat == RepeatInit /\ [][RepeatUnroll \/ RepeatWhileUnroll]_vars

(***************************************************************************)
(* Properties.                                                             *)
(***************************************************************************)
InMove == turn.pc \in {"first_run", "second_run"}

\* C1: in every reachable state each mon has 0 <= current_hp <= max_hp,
\* and is_fainted holds exactly when current_hp is 0.
C1_HpWithinBounds ==
  \A i \in SlotIds :
    /\ 0 <= mons[i].current_hp
    /\ mons[i].current_hp <= mons[i].max_hp
    /\ is_fainted(mons[i]) <=> (mons[i].current_hp = 0)

\* A hit for more than the defender's whole HP has been committed and left
\* the defender at 0.
C1_Witness ==
  /\ InMove
  /\ pipe.stage = DamageApplied
  /\ ~result.missed
  /\ result.damage > mons[Defender].max_hp
  /\ mons[Defender].current_hp = 0

\* C2: determine_order picks the first actor by strictly higher priority,
\* else by the one Quick Claw flag that is set, else by strictly higher
\* effective speed, and draws the coin exactly when priorities, Quick Claw
\* flags and speeds are all equal.
C2_TurnOrder ==
  turn.pc = "first" =>
    LET p1 == get_action_priority(turn.actions[0], 0)
        p2 == get_action_priority(turn.actions[1], 1)
        q1 == turn.quick_claw[0]
        q2 == turn.quick_claw[1]
        s1 == turn.speeds[0]
        s2 == turn.speeds[1]
    IN /\ p1 > p2 => FirstSlot = 0
       /\ p2 > p1 => FirstSlot = 1
       /\ (p1 = p2 /\ q1 /\ ~q2) => FirstSlot = 0
       /\ (p1 = p2 /\ q2 /\ ~q1) => FirstSlot = 1
       /\ (p1 = p2 /\ q1 = q2 /\ s1 > s2) => FirstSlot = 0
       /\ (p1 = p2 /\ q1 = q2 /\ s2 > s1) => FirstSlot = 1
       /\ turn.drew <=> (p1 = p2 /\ q1 = q2 /\ s1 = s2)

\* Equal priorities, only the slower side's Quick Claw triggered, and that
\* side acts first.
C2_Witness ==
  /\ turn.pc = "first"
  /\ get_action_priority(turn.actions[0], 0)
       = get_action_priority(turn.actions[1], 1)
  /\ turn.quick_claw[0] /\ ~turn.quick_claw[1]
  /\ turn.speeds[0] < turn.speeds[1]
  /\ FirstSlot = 0

\* C3: once the first action has returned, the second action is not run if
\* the second mon has fainted or the first action set result.switch_out;
\* otherwise it is run.
C3_SecondActionSkipRule ==
  [][turn.pc = "second" =>
       IF \/ is_fainted(mons[SecondSlot])
          \/ (turn.actions[FirstSlot].type = "MOVE" /\ result.switch_out)
         THEN turn'.pc = "end" /\ UNCHANGED <<mons, slots, ctx, result>>
         ELSE turn'.pc = IF turn.actions[SecondSlot].type = "MOVE"
                           THEN "second_run" ELSE "end"]_vars

\* C4: result() is P1_WINS exactly when mon 0 is alive and mon 1 fainted,
\* P2_WINS exactly when mon 1 is alive and mon 0 fainted, and ONGOING in
\* every other case, both mons fainted included.
C4_ResultByFaints ==
  battle_result =
    IF ~is_fainted(mons[0]) /\ is_fainted(mons[1]) THEN P1_WINS
    ELSE IF is_fainted(mons[0]) /\ ~is_fainted(mons[1]) THEN P2_WINS
    ELSE ONGOING

\* C6: within an effect the pipeline stage after a command is never lower
\* than the stage before it.
C6_StagesMonotone ==
  [][(InMove /\ pipe.ops # <<>> /\ pipe'.ops = Tail(pipe.ops))
       => pipe'.stage >= pipe.stage]_vars

\* C7: every command an effect runs has a domain mask that is a subset of
\* the mask the effect declares.
C7_DomainsCovered ==
  \A k \in 1..Len(pipe.ops) :
    ValidAccess(EffectDomains(pipe.effect), OpMeta(pipe.ops[k].cmd).domains)

C9_SubstituteBit ==
  \A i \in SlotIds :
    (slots[i].substitute_hp > 0) <=> ("SUBSTITUTE" \in slots[i].volatiles)

\* ApplyDamage has committed a hit that left the defender's HP untouched:
\* it went into a substitute, which broke.
C9_Witness ==
  /\ InMove
  /\ pipe.stage = DamageApplied
  /\ ~result.missed /\ result.damage > 0
  /\ mons[Defender].current_hp = mons[Defender].max_hp
  /\ slots[Defender].substitute_hp = 0
  /\ "SUBSTITUTE" \notin slots[Defender].volatiles

\* C10: when a dispatched MOVE action returns, the acting slot has
\* moved_this_turn set and last_move_used equal to the move's id, and the
\* PP of the chosen move is one less than before.  No command writes PP, so
\* the PP before the closing step is the PP before the action.
C10_MoveBookkeeping ==
  [][(InMove /\ turn'.pc \notin {"first_run", "second_run"}) =>
       LET index == turn.actions[Attacker].index + 1
       IN /\ slots'[Attacker].moved_this_turn
          /\ slots'[Attacker].last_move_used = lookup_move(ctx.move).id
          /\ mons'[Attacker].pp[index] = mons[Attacker].pp[index] - 1]_vars


\* C11: the priority computed for a SWITCH action is 6, so a SWITCH action
\* is ordered before any MOVE action.
C11_SwitchPriority ==
  turn.pc = "first" =>
    \A i \in SlotIds :
      turn.actions[i].type = "SWITCH" =>
        /\ get_action_priority(turn.actions[i], i) = 6
        /\ turn.actions[1 - i].type = "MOVE" => FirstSlot = i

\* C12: when a MOVE whose magic_coat_affected flag is set is dispatched
\* against a slot whose bounce_move is set, it runs with attacker and
\* defender swapped and bounce_move is cleared.
C12_MagicCoatBounce ==
  [][\A actor \in SlotIds :
       (/\ turn.pc \in {"first", "second"}
        /\ turn'.pc \in {"first_run", "second_run"}
        /\ actor = (IF turn.pc = "first" THEN FirstSlot ELSE SecondSlot)
        /\ magic_coat_affected(MoveOf(actor, turn.actions[actor].index))
        /\ slots[1 - actor].bounce_move)
       => /\ ctx'.attacker_slot_id = 1 - actor
          /\ ~slots'[1 - actor].bounce_move]_vars


\* The Effect tags of the move table that dispatch_move_effect binds to a
\* routine written for them; every other tag is a stub.
DedicatedEffects ==
  {"HIT", "ABSORB", "RECOIL", "DRAGON_RAGE", "POISON_HIT", "PURSUIT",
   "ATK_UP_2", "ATK_DOWN", "HAZE", "POISON", "RESTORE_HP", "LIGHT_SCREEN",
   "REFLECT", "SANDSTORM", "SUNNY_DAY", "RAIN_DANCE", "HAIL", "MAGIC_COAT",
   "SKY_ATTACK", "BATON_PASS", "PERISH_SONG", "NONE"}

Ran(cmds) == Running(cmds) /\ pipe'.ops = Tail(pipe.ops)

\* C14: SetWeather<W> on a field whose weather is not W sets weather to W
\* and weather_turns to 5 without failing; applied while the weather is W
\* it sets result.failed and leaves weather and weather_turns unchanged.
C14_SetWeather ==
  [][Ran({"SetSun", "SetRain", "SetSandstorm", "SetHail"}) =>
       IF field.weather # WeatherArg(Cmd)
         THEN /\ field'.weather = WeatherArg(Cmd)
              /\ field'.weather_turns = 5
              /\ ~result'.failed
         ELSE /\ result'.failed
              /\ field' = field]_vars

\* The second Sandstorm of one turn, used by the other side, has failed:
\* the weather the first one set is still in place.
C14_Witness ==
  /\ turn.pc = "second_run"
  /\ ctx.move = "SANDSTORM"
  /\ slots[1 - Attacker].last_move_used = lookup_move("SANDSTORM").id % 256
  /\ slots[1 - Attacker].moved_this_turn
  /\ pipe.ops = <<>>
  /\ result.failed
  /\ field.weather = "SANDSTORM" /\ field.weather_turns = 5


\* What a screen command does to the timer it owns: 5 when the timer was
\* 0, else result.failed and the timer as it was.
ScreenSet(timer) ==
  IF sides[Attacker][timer] = 0
    THEN sides'[Attacker][timer] = 5
    ELSE result'.failed /\ sides'[Attacker][timer] = sides[Attacker][timer]

\* C15: each of SetReflect, SetLightScreen, SetSafeguard and SetMist sets
\* its timer of the user's side to 5 when the timer is 0, and otherwise
\* sets result.failed and leaves the timer unchanged.
C15_ScreenTimers ==
  [][/\ Ran({"SetReflect"}) => ScreenSet("reflect_turns")
     /\ Ran({"SetLightScreen"}) => ScreenSet("light_screen_turns")
     /\ SetSafeguard => ScreenSet("safeguard_turns")
     /\ SetMist => ScreenSet("mist_turns")]_vars

\* Reflect was used a second time on a side whose Reflect is up, and the
\* same side has Safeguard and Mist set after the battle.
C15_Witness ==
  /\ BattleOver
  /\ result.failed
  /\ ctx.move = "REFLECT"
  /\ sides[Attacker].reflect_turns = 5
  /\ sides[Attacker].safeguard_turns = 5
  /\ sides[Attacker].mist_turns = 5


C17_RaiseLowerRoundTrip ==
  (turn.pc = "round_trip" /\ turn.n = 2) =>
    slots[Attacker][turn.S] = turn.start \/ result.failed


\* The fields of a slot clear_for_baton_pass is to keep, the volatiles
\* apart.
BatonPassFields ==
  StageFields \cup {"substitute_hp", "perish_count", "leech_seed_target"}

\* C18: after clear_for_baton_pass the seven stat stages, substitute_hp,
\* perish_count, the leech-seed target and the volatile bits confused,
\* focus-energy, substitute, leech-seed, cursed, trapped, ingrained,
\* perish-song and lock-on keep their values, and every other field of the
\* slot has its default-initialised value.
C18_BatonPassFrame ==
  [][ClearForBatonPass =>
       \E i \in SlotIds :
         LET s == slots[i]
             t == slots'[i]
         IN /\ slots'[1 - i] = slots[1 - i]
            /\ \A f \in BatonPassFields : t[f] = s[f]
            /\ t.volatiles =
                 s.volatiles \cap {"CONFUSED", "FOCUS_ENERGY", "SUBSTITUTE",
                                   "LEECH_SEED", "CURSED", "TRAPPED",
                                   "INGRAINED", "PERISH_SONG", "LOCK_ON"}
            /\ \A f \in (DOMAIN SlotState) \ (BatonPassFields
                                                 \cup {"volatiles"}) :
                 t[f] = SlotState[f]]_vars

\* A slot that was seeded while charging has been cleared for Baton Pass:
\* the seed and its target are kept, the charge is gone.
C18_Witness ==
  /\ turn.pc = "fixture"
  /\ \E i \in SlotIds :
       /\ "LEECH_SEED" \in slots[i].volatiles
       /\ slots[i].leech_seed_target = 1 - i
       /\ "CHARGING" \notin slots[i].volatiles
       /\ slots[i].charging_move = 0
       /\ slots[i].held_item = "NONE"


C20_PerishSong ==
  [][Ran({"ApplyPerishSong"}) =>
       LET newly == {i \in SlotIds :
                      /\ ~is_fainted(mons[i])
                      /\ "PERISH_SONG" \notin slots[i].volatiles}
       IN /\ \A i \in newly :
               /\ "PERISH_SONG" \in slots'[i].volatiles
               /\ slots'[i].perish_count = 3
          /\ \A i \in SlotIds :
               "PERISH_SONG" \in slots[i].volatiles =>
                 slots'[i].perish_count = slots[i].perish_count
          /\ result'.failed <=> newly = {}]_vars

\* The song has run with slot 0 already counting at 1: slot 0 keeps its
\* count, the user in slot 1 is newly marked with 3, and the move succeeds.
C20_Witness ==
  /\ pipe.effect = "PerishSong" /\ pipe.ops = <<>>
  /\ pipe.stage = EffectApplied
  /\ slots[0].perish_count = 1 /\ "PERISH_SONG" \in slots[0].volatiles
  /\ slots[1].perish_count = 3 /\ "PERISH_SONG" \in slots[1].volatiles
  /\ ~is_fainted(mons[0]) /\ ~is_fainted(mons[1])
  /\ ~result.failed

\* C21: immediately after init all seven stat stages of both slots hold the
\* neutral value zero, and Swords Dance used on a slot whose attack stage is
\* still the one init left moves atk_stage to +2 without setting
\* result.failed.
C21_FreshStagesNeutral ==
  /\ \A i \in SlotIds : \A f \in StageFields : slots[i][f] = 0
  /\ [][(/\ Ran({"RaiseUserAtk2"})
         /\ ctx.move = "SWORDS_DANCE"
         /\ slots[Attacker].atk_stage = SlotState.atk_stage) =>
          /\ slots'[Attacker].atk_stage = 2
          /\ ~result'.failed]_vars

\* C22: immediately after init each mon has current_hp = max_hp > 0, no
\* status, and in each of its four move slots the PP the move table gives
\* for the rental's move in that slot.
C22_FreshMonState ==
  (turn.pc = "idle" /\ turn.n = 0) =>
    \A i \in SlotIds :
      /\ mons[i].current_hp = mons[i].max_hp
      /\ mons[i].max_hp > 0
      /\ mons[i].status = "NONE"
      /\ \A k \in 0..(NUM_MOVES - 1) :
           mons[i].pp[k + 1] = lookup_move(MoveOf(i, k)).pp

\* C23: when the engine was initialised from rentals of which only p1's
\* holds Quick Claw, p1 is slower than p2, both sides choose moves of equal
\* priority and p1's turn-start draw Random(5) returns 0, p1's move is
\* executed before p2's move in that turn.
C23_QuickClawFromRental ==
  [][(/\ \E r2 \in Random(5) : ExecuteTurnDrawing(0, r2)
      /\ g_RENTAL_SETS[rentals[0]].held_item = "QUICK_CLAW"
      /\ g_RENTAL_SETS[rentals[1]].held_item # "QUICK_CLAW"
      /\ turn'.actions[0].type = "MOVE" /\ turn'.actions[1].type = "MOVE"
      /\ get_action_priority(turn'.actions[0], 0)
           = get_action_priority(turn'.actions[1], 1)
      /\ turn'.speeds[0] < turn'.speeds[1]) =>
       turn'.first_slot = 0]_vars

C25_StatusOnlyFromNone ==
  [][/\ \A i \in SlotIds :
          mons[i].status # "NONE" => mons'[i].status = mons[i].status
     /\ (Ran({"ApplyPoisonMove"}) /\ mons[Defender].status # "NONE") =>
          result'.failed]_vars

\* Poison Powder has run against a paralysed target: it failed and the
\* target is still paralysed.
C25_Witness ==
  /\ InMove /\ ctx.move = "POISON_POWDER" /\ pipe.ops = <<>>
  /\ result.failed /\ ~result.status_applied
  /\ mons[Defender].status = "PARALYSIS"

\* C26: a slot that carries FLINCHED when its turn to act comes does not
\* execute its move: while its action runs, no mon's HP or status, no stat
\* stage, no side state and no field state changes.
C26_FlinchedDoesNotAct ==
  [][(InMove /\ "FLINCHED" \in slots[Attacker].volatiles) =>
       /\ UNCHANGED <<mons, sides, field>>
       /\ \A i \in SlotIds : \A f \in StageFields :
            slots'[i][f] = slots[i][f]]_vars

\* C27: once result() has returned P1_WINS or P2_WINS it returns the same
\* value after every later execute_turn call: a mon that had fainted when
\* execute_turn was called executes no move in that call, and the HP of a
\* fainted mon stays 0.
C27_ResultIsFinal ==
  [][/\ (turn.pc = "end" /\ turn.result_at_call # ONGOING) =>
          battle_result' = turn.result_at_call
     /\ \A i \in SlotIds :
          /\ (turn.pc \in {"first", "second"} /\ turn.result_at_call # ONGOING
                /\ is_fainted(mons[i])) =>
               ~(InMove' /\ Attacker' = i)
          /\ is_fainted(mons[i]) => is_fainted(mons'[i])]_vars

\* C28: for a slot that starts not charging, successive uses of SKY_ATTACK
\* alternate: a use by a slot that is not charging runs BeginCharge alone,
\* which sets CHARGING and a non-zero charging_move and leaves both mons,
\* the defender's slot and the result as they were (no accuracy roll, no
\* damage); the next use starts with ClearCharge, which clears both, and
\* goes on to the accuracy, damage and flinch steps; and in every state
\* the CHARGING bit is set exactly when charging_move is non-zero.
C28_SkyAttackAlternates ==
  /\ [](\A i \in SlotIds :
          "CHARGING" \in slots[i].volatiles <=> slots[i].charging_move # 0)
  /\ [][/\ (~InMove /\ InMove' /\ ctx'.move = "SKY_ATTACK") =>
             LET cmds == [k \in 1..Len(pipe'.ops) |-> pipe'.ops[k].cmd]
             IN IF slots[Attacker'].charging_move = 0
                  THEN cmds = <<"BeginCharge">>
                  ELSE /\ cmds[1] = "ClearCharge"
                       /\ \A c \in {"CheckAccuracy", "CalculateDamage",
                                    "ApplyDamage", "TryApplyFlinch"} :
                            \E k \in 2..Len(cmds) : cmds[k] = c
        /\ Ran({"BeginCharge"}) =>
             /\ "CHARGING" \in slots'[Attacker].volatiles
             /\ slots'[Attacker].charging_move # 0
             /\ slots'[Defender] = slots[Defender]
             /\ UNCHANGED <<mons, result>>
        /\ Ran({"ClearCharge"}) =>
             /\ "CHARGING" \notin slots'[Attacker].volatiles
             /\ slots'[Attacker].charging_move = 0]_vars

\* The second use has run to its end: the charge of turn 1 is cleared and
\* the hit has done damage.
C28_Witness ==
  /\ InMove /\ ctx.move = "SKY_ATTACK" /\ pipe.ops = <<>>
  /\ turn.n = 1
  /\ pipe.stage = FaintChecked
  /\ slots[Attacker].charging_move = 0
  /\ "CHARGING" \notin slots[Attacker].volatiles
  /\ ~result.missed /\ result.damage > 0
  /\ mons[Defender].current_hp < mons[Defender].max_hp

C30_SubstituteTakesDamage ==
  [][(/\ Ran({"ApplyDamage"})
      /\ ~result.missed /\ result.damage > 0
      /\ slots[Defender].substitute_hp > 0) =>
       /\ mons'[Defender].current_hp = mons[Defender].current_hp
       /\ IF result.damage >= slots[Defender].substitute_hp
            THEN /\ slots'[Defender].substitute_hp = 0
                 /\ "SUBSTITUTE" \notin slots'[Defender].volatiles
            ELSE /\ slots'[Defender].substitute_hp
                      = slots[Defender].substitute_hp - result.damage
                 /\ "SUBSTITUTE" \in slots'[Defender].volatiles]_vars

\* ApplyDamage has committed a hit smaller than the substitute: the
\* substitute lost exactly the damage and the mon behind it lost nothing.
C30_Witness ==
  /\ InMove /\ pipe.stage = DamageApplied
  /\ ~result.missed /\ result.damage > 0
  /\ slots[Defender].substitute_hp > 0
  /\ slots[Defender].substitute_hp + result.damage
       = mons[Defender].max_hp \div 4
  /\ "SUBSTITUTE" \in slots[Defender].volatiles
  /\ mons[Defender].current_hp = mons[Defender].max_hp

\* C31: when an ABSORB hit is taken by the defender's substitute, a hit
\* that breaks the substitute included, DrainHalfHP does not increase the
\* attacker's HP; when the hit lands on the mon itself with damage d > 0,
\* DrainHalfHP heals the attacker by max(1, d \div 2), capped at max_hp.
\* Within one turn a defender still at full HP after a landed hit with
\* d > 0 had that hit taken by its substitute.  The attacker's HP is
\* compared with its HP after the stage's item hooks, so that only the
\* drain itself is measured.
C31_DrainBehindSubstitute ==
  [][(/\ Ran({"DrainHalfHP"})
      /\ ctx.move = "ABSORB"
      /\ ~result.missed /\ result.damage > 0) =>
       \E t \in Draws :
         LET before == Pre(t).mons[Attacker].current_hp
             drain == IF result.damage \div 2 = 0
                        THEN 1 ELSE result.damage \div 2
             healed == IF before + drain > mons[Attacker].max_hp
                         THEN mons[Attacker].max_hp ELSE before + drain
         IN IF mons[Defender].current_hp = mons[Defender].max_hp
              THEN mons'[Attacker].current_hp = before
              ELSE mons'[Attacker].current_hp = healed]_vars

\* C32: whenever a damaging move used by a Shell Bell holder deals damage
\* d > 0 to the target, a move with the plain HIT effect included, the
\* attacker is healed by max(1, d \div 8), capped at max_hp.  The heal is
\* looked for where the code puts it, at the command that leaves the
\* DamageApplied stage; the commands that change the attacker's HP on their
\* own account (drain, recoil) are left aside, and the hit was on the target
\* itself: it has lost HP and stands behind no substitute.
C32_ShellBellHeals ==
  [][(/\ InMove /\ pipe.ops # <<>>
      /\ pipe.stage = DamageApplied
      /\ OpMeta(Cmd).output_stage # DamageApplied
      /\ Cmd \notin {"DrainHalfHP", "RecoilQuarter"}
      /\ pipe'.ops = Tail(pipe.ops)
      /\ slots[Attacker].held_item = "SHELL_BELL"
      /\ ~slots[Attacker].item_consumed
      /\ ~result.missed /\ result.damage > 0
      /\ slots[Defender].substitute_hp = 0
      /\ mons[Defender].current_hp < mons[Defender].max_hp) =>
       LET bell == IF result.damage \div 8 = 0
                     THEN 1 ELSE result.damage \div 8
           after == mons[Attacker].current_hp + bell
       IN mons'[Attacker].current_hp =
            IF after > mons[Attacker].max_hp
              THEN mons[Attacker].max_hp ELSE after]_vars

\* C33: POISON_HIT poisons a status-free defender only when the hit lands
\* and a uniform draw in [0, 100) is below 30; a landed hit whose draw is 30
\* or more still deals its damage and leaves the defender's status none.
\* Seventy of the hundred draws are 30 or more, so whenever TryApplyPoison
\* is about to run with chance 30 after a landed hit on a status-free
\* defender, it can run and leave the defender's status none.
C33_PoisonChanceCanFail ==
  (/\ Running({"TryApplyPoison"})
   /\ lookup_move(ctx.move).effect = "POISON_HIT"
   /\ Head(pipe.ops).arg = 30
   /\ ~result.missed
   /\ mons[Defender].status = "NONE") =>
    ENABLED (TryApplyStatus /\ mons'[Defender].status = "NONE")

C35_NoFlinchAfterMoving ==
  [][\A i \in SlotIds :
       ("FLINCHED" \notin slots[i].volatiles
        /\ "FLINCHED" \in slots'[i].volatiles) =>
         ~slots[i].moved_this_turn]_vars

\* C36: after ApplyDamage on a defender without a substitute, result.damage
\* equals the HP actually removed from the defender, its current_hp before
\* minus its current_hp after.
C36_DamageIsHpRemoved ==
  [][(/\ Ran({"ApplyDamage"})
      /\ ~result.missed /\ result.damage > 0
      /\ slots[Defender].substitute_hp = 0) =>
       result'.damage =
         mons[Defender].current_hp - mons'[Defender].current_hp]_vars

\* C37: after ApplyDamage, result.damage is never greater than the damage
\* value that entered ApplyDamage: the pre-damage-apply item hook (Focus
\* Band) can only lower it, including when the defender's current_hp is
\* already 0.
C37_HookOnlyLowersDamage ==
  [][Ran({"ApplyDamage"}) => result'.damage <= result.damage]_vars

\* C38: Poison Powder and POISON_HIT's poison chance never poison a
\* defender one of whose types is POISON or STEEL; ApplyStatusMove<POISON>
\* against such a target sets result.failed and leaves its status none.
C38_PoisonTypeImmunity ==
  [][\A i \in SlotIds :
       (ActiveMon(i).type1 \in {"POISON", "STEEL"}
        \/ ActiveMon(i).type2 \in {"POISON", "STEEL"}) =>
         /\ mons[i].status # "POISON" => mons'[i].status # "POISON"
         /\ (Ran({"ApplyPoisonMove"}) /\ i = Defender) => result'.failed]_vars

\* C39: while Repeat<N> runs its action, the context's loop_iteration
\* equals the zero-based index of the current iteration (0 on the first
\* run, N-1 on the last), and the action runs exactly N times.
C39_RepeatExposesIndex ==
  (turn.pc = "repeat" /\ turn.loop = "Repeat") =>
    /\ \A j \in 1..Len(turn.out) : turn.out[j] = j - 1
    /\ Len(turn.out) = turn.I
    /\ turn.I <= turn.N

\* C40: executing any registered effect, the item hooks at its stage
\* transitions included, changes only state in the domains named in the
\* effect's declared mask: an effect declared without Field leaves weather
\* and weather_turns unchanged, without Side leaves both sides' timers and
\* spikes unchanged, without Mon leaves both mons' HP, status and PP
\* unchanged, and without Slot leaves both slots unchanged.
C40_EffectFrame ==
  [][(InMove /\ pipe.ops # <<>> /\ pipe'.ops = Tail(pipe.ops)) =>
       LET mask == EffectDomains(pipe.effect)
       IN /\ "Field" \notin mask => field' = field
          /\ "Side" \notin mask => sides' = sides
          /\ "Mon" \notin mask => mons' = mons
          /\ "Slot" \notin mask => slots' = slots]_vars

\* PoisonHit, declared Pure | Scratch, has run to its end for a Shell Bell
\* holder: the hit landed, the item hook fired at the stage transition and
\* the defender was poisoned, with the field and both sides as set up.
C40_Witness ==
  /\ InMove /\ pipe.effect = "PoisonHit" /\ pipe.ops = <<>>
  /\ ~result.missed /\ result.damage > 0
  /\ slots[Attacker].held_item = "SHELL_BELL"
  /\ mons[Defender].status = "POISON"
  /\ field = FieldState
  /\ sides = [i \in SlotIds |-> SideState]

=============================================================================
